---- MODULE Spec2Model ----
(***************************************************************************)
(* A model of the bmap-driven copy engines of bmap-tools:                  *)
(*   - bmaptools/BmapCopy.py            (engine "v1": sequential copy)     *)
(*   - tests/oldcodebase/BmapCopy2_6.py (engine "v26": reader thread,      *)
(*     bounded queue, writer loop, block-device tune/restore)              *)
(* Both files are Python 2 code: "/" on integers is floor division.        *)
(* Sizes are scaled down: a block is BlockSize bytes, a batch is           *)
(* BatchBytes bytes, an image has at most NBlocks blocks.                  *)
(***************************************************************************)
EXTENDS Integers, Sequences, FiniteSets, TLC

\* ------------------------------------------------------------- bounds
\* Bytes per block declared by the block maps of the model (4096 in practice).
BlockSize == 2
\* Blocks of the image the block maps of the model describe.
NBlocks == 4
\* Blocks per batch of the model; _batch_bytes is BatchBlocksScaled blocks.
BatchBlocksScaled == 2
\* Calls of sync() made after copy() has ended.
MaxSyncCalls == 2
\* Calls of sync() made before copy() is called.
MaxPreSyncCalls == 1

\* ---------------------------------------------------- program constants
\* BmapCopy.__init__: self._batch_queue_len = 2
QueueLenPlain == 2
\* BmapBdevCopy.__init__: self._batch_queue_len = 6
QueueLenBdev == 6

\* The bytes behind _dest_fsync_watermark are 6 * 1024 * 1024, those of
\* _batch_bytes 1024 * 1024: the watermark is six batches.
WatermarkBatches == 6

\* self._batch_bytes (1024 * 1024 in the code), scaled
BatchBytes == BatchBlocksScaled * BlockSize
\* The bytes behind _dest_fsync_watermark, scaled as _batch_bytes is.
WatermarkBytes == WatermarkBatches * BatchBytes
ImageBytes == NBlocks * BlockSize

\* An absent integer (Python's None) and an absent checksum attribute.
NoneVal == -1
NoSha == -1

Min(a, b) == IF a <= b THEN a ELSE b
Max(a, b) == IF a >= b THEN a ELSE b

\* --------------------------------------------------------------- bytes
\* The image as generated: byte k (1-based) holds k.  An altered byte holds
\* k + 10.  A hole of the destination reads 0, stale destination content 77.
ImageOf(len, alt) == [k \in 1..len |-> IF k = alt THEN k + 10 ELSE k]

\* file.read(n) at byte offset pos: at most n bytes, fewer at the end of the
\* file, none beyond it.
ReadAt(f, pos, n) == SubSeq(f, pos + 1, Min(pos + n, Len(f)))

\* file.seek(pos); file.write(buf): the file grows when needed, a gap reads 0.
WriteAt(f, pos, buf) ==
    [k \in 1..Max(Len(f), pos + Len(buf)) |->
        IF k > pos /\ k <= pos + Len(buf) THEN buf[k - pos]
        ELSE IF k <= Len(f) THEN f[k] ELSE 0]

\* os.ftruncate(fd, size): cut, or extend with zeros.
TruncateTo(f, size) == [k \in 1..size |-> IF k <= Len(f) THEN f[k] ELSE 0]

\* hashlib.sha1: update(buf) folds the bytes into the running state, so the
\* digest of chunks fed one after the other is the digest of their
\* concatenation.  The model's digest is a 16-bit polynomial hash.
HashInit == 7
RECURSIVE HashUpdate(_, _)
HashUpdate(h, buf) ==
    IF buf = <<>> THEN h
    ELSE HashUpdate((h * 31 + Head(buf)) % 65521, Tail(buf))

\* The digest of blocks first..last of the image as generated: what a
\* correct block map declares in a Range's sha1 attribute.
GoodSha(first, last) ==
    HashUpdate(HashInit,
               ReadAt(ImageOf(ImageBytes, 0), first * BlockSize,
                      (last - first + 1) * BlockSize))

\* ------------------------------------------------------ block map inputs
\* A Range element: the integers of its text split at '-' ("N" or "N-M")
\* and its sha1 attribute.
RangeTexts == { <<0, 1>>, <<0, 2>>, <<0, 3>>, <<2, 3>>, <<1>>, <<3>>, <<3, 2>> }

TextFirst(nums) == nums[1]
TextLast(nums) == IF Len(nums) > 1 THEN nums[2] ELSE nums[1]

RangeElem(nums, withSha) ==
    [nums |-> nums,
     sha1 |-> IF withSha /\ TextFirst(nums) <= TextLast(nums)
              THEN GoodSha(TextFirst(nums), TextLast(nums)) ELSE NoSha]

RangeTextLists == UNION { [1..n -> RangeTexts] : n \in 0..2 }

\* Sum of (last - first + 1) over the ranges of a map as written.
RECURSIVE SumRanges(_)
SumRanges(texts) ==
    IF texts = <<>> THEN 0
    ELSE (TextLast(Head(texts)) - TextFirst(Head(texts)) + 1)
         + SumRanges(Tail(texts))

\* A bmap document: the version attribute's major and minor numbers, the
\* BlockSize, BlocksCount, MappedBlocksCount elements, the ImageSize element
\* (has_image_size tells whether the document has one) and the Range elements.
BmapDoc(major, blocks, mapped, size, hasSize, texts, withSha) ==
    [major |-> major, minor |-> 0,
     block_size |-> BlockSize,
     blocks_cnt |-> blocks,
     mapped_cnt |-> mapped,
     image_size |-> size,
     has_image_size |-> hasSize,
     ranges |-> [i \in 1..Len(texts) |-> RangeElem(texts[i], withSha)]]

\* A version 1.0 document of an image of NBlocks whole blocks.
BmapOf(texts, withSha, mapped) ==
    BmapDoc(1, NBlocks, mapped, ImageBytes, TRUE, texts, withSha)

\* ------------------------------------------------- the bmap's own checksum
\* The content of a bmap document with the 40 characters of its BmapFileSHA1
\* element replaced by zeros: what _verify_bmap_checksum hashes.
RECURSIVE RangeNums(_)
RangeNums(ranges) ==
    IF ranges = << >> THEN << >>
    ELSE Head(ranges).nums \o << Head(ranges).sha1 + 1 >> \o RangeNums(Tail(ranges))

ZeroedContent(b) ==
    << b.major, b.minor, b.block_size, b.blocks_cnt, b.mapped_cnt,
       b.image_size, 0 >> \o RangeNums(b.ranges)

\* hashlib.sha1(mapped_bmap).hexdigest()
CalculatedSha1(b) == HashUpdate(HashInit, ZeroedContent(b))

\* _verify_bmap_checksum: calculated_sha1 == correct_sha1
VerifyBmapChecksum(b) == CalculatedSha1(b) = b.file_sha1

\* A document of version major.minor with the BmapFileSHA1 element its
\* generator writes.
SignedDoc(d, major, minor) ==
    LET v == [d EXCEPT !.major = major, !.minor = minor]
    IN v @@ ("file_sha1" :> CalculatedSha1(v))

\* What was done to a signed document afterwards: nothing, a character of
\* the checksum changed, BlocksCount or MappedBlocksCount changed.
Tampers == {"none", "sha", "blocks", "mapped"}

Tampered(d, how) ==
    IF how = "sha" THEN [d EXCEPT !.file_sha1 = (@ + 1) % 65521]
    ELSE IF how = "blocks" THEN [d EXCEPT !.blocks_cnt = @ - 1]
    ELSE IF how = "mapped" THEN [d EXCEPT !.mapped_cnt = @ - 1]
    ELSE d

\* self.block_size = 4096 without a bmap, scaled to the model's block.
DefaultBlockSize == BlockSize

\* Python's truth of an integer or None: 'if x:'.
Truthy(x) == x # NoneVal /\ x # 0

\* ------------------------------------------------------- pure helpers
\* A variant of _get_batches that does not clip the last batch to 'last'
\* (used to test that C5 depends on the batches).
RECURSIVE GetBatchesUnclipped(_, _, _)
GetBatchesUnclipped(first, last, batch_blocks) ==
    IF first + batch_blocks - 1 <= last
    THEN << [start |-> first, end |-> first + batch_blocks - 1,
             length |-> batch_blocks] >>
         \o GetBatchesUnclipped(first + batch_blocks, last, batch_blocks)
    ELSE IF last - first + 1 # 0
         THEN << [start |-> first, end |-> first + batch_blocks - 1,
                  length |-> batch_blocks] >>
         ELSE << >>

\* _get_batches(first, last): the (start, end, length) batches of a range.
RECURSIVE GetBatches(_, _, _)
GetBatches(first, last, batch_blocks) ==
    IF first + batch_blocks - 1 <= last
    THEN << [start |-> first, end |-> first + batch_blocks - 1,
             length |-> batch_blocks] >>
         \o GetBatches(first + batch_blocks, last, batch_blocks)
    ELSE IF last - first + 1 # 0
         THEN << [start |-> first, end |-> first + (last - first + 1) - 1,
                  length |-> last - first + 1] >>
         ELSE << >>

\* The batches a copy loop takes from the generator _get_batches(first, last).
\* With _batch_blocks = 0 the generator yields (first, first - 1, 0) without
\* end; both loops leave at the first of these chunks, whose read of 0 bytes
\* returns nothing, so the first chunk stands for them all.
BatchesOf(first, last, batch_blocks) ==
    IF batch_blocks = 0
    THEN << [start |-> first, end |-> first - 1, length |-> 0] >>
    ELSE GetBatches(first, last, batch_blocks)

\* One step of _get_block_ranges of BmapCopy2_6.py on a Range element.
RangeOf26(elem) ==
    LET first == elem.nums[1] IN
    IF Len(elem.nums) > 1
    THEN [err |-> IF first > elem.nums[2] THEN "badrange" ELSE "none",
          first |-> first, last |-> elem.nums[2], sha1 |-> elem.sha1]
    ELSE [err |-> "none", first |-> first, last |-> first, sha1 |-> elem.sha1]

\* One step of _get_block_ranges of BmapCopy.py: for the text "N" the code
\* runs 'first = last', where 'last' is the local left by the previous
\* element (prevLast), unbound (NoneVal) before the first "N-M" element.
RangeOfV1(elem, prevLast) ==
    LET first == elem.nums[1] IN
    IF Len(elem.nums) > 1
    THEN [err |-> IF first > elem.nums[2] THEN "badrange" ELSE "none",
          first |-> first, last |-> elem.nums[2], sha1 |-> elem.sha1]
    ELSE [err |-> IF prevLast = NoneVal THEN "unbound" ELSE "none",
          first |-> prevLast, last |-> prevLast, sha1 |-> elem.sha1]

\* The file "queue/scheduler": the schedulers, the selected one in brackets.
SchedulerContents(selected) ==
    [i \in 1..3 |-> [name |-> <<"noop", "deadline", "cfq">>[i],
                     bracketed |-> <<"noop", "deadline", "cfq">>[i] = selected]]

\* re.match(r'.*\[(.+)\].*', contents): the bracketed name, "" without a match.
BracketedName(contents) ==
    IF \E i \in 1..Len(contents) : contents[i].bracketed
    THEN contents[CHOOSE i \in 1..Len(contents) : contents[i].bracketed].name
    ELSE ""

\* --------------------------------------------------------------- state
VARIABLES
    cfg,      \* the run's inputs: engine, class, block map, image, image_size
              \* argument, the destination as found (dest0) and whether it
              \* is /dev/null, copy() arguments
    pc,       \* where the thread that called the constructor and copy() is
    eng,      \* the engine object's attributes
    rd,       \* the reader: the _get_data thread (v26), the range loop (v1)
    queue,    \* self._batch_queue
    wr,       \* the writer's locals: blocks_written, bytes_written, fsync_last
    dest,     \* the bytes of the destination
    log,      \* the calls on the destination that returned, in order
    sys,      \* the device's tunables and what was done to them; the calls of
              \* sync() made after copy()
    exc,      \* the outcome of BmapCopy.copy: "none" while it runs
    result    \* what the caller of copy() got: "running" until it returns or raises

vars == << cfg, pc, eng, rd, queue, wr, dest, log, sys, exc, result >>

Images ==
    { ImageOf(ImageBytes, 0),                      \* as generated
      ImageOf(ImageBytes, ImageBytes - 1),         \* one byte of the last block altered
      ImageOf(ImageBytes - BlockSize - 1, 0),      \* cut inside a block
      ImageOf(ImageBytes - 2 * BlockSize, 0) }     \* cut at a block boundary

StaleDest(len) == [k \in 1..len |-> 77]

NoEngine ==
    [block_size |-> NoneVal, blocks_cnt |-> NoneVal, mapped_cnt |-> NoneVal,
     image_size |-> NoneVal, mapped_size |-> NoneVal, batch_blocks |-> NoneVal,
     queue_len |-> NoneVal, watermark |-> NoneVal,
     old_sched |-> "", old_ratio |-> NoneVal]

IdleReader ==
    [pc |-> "idle", idx |-> 0, batches |-> << >>, pos |-> 0, hash |-> NoneVal,
     first |-> NoneVal, last |-> NoneVal, sha1 |-> NoSha,
     msg |-> [type |-> "none", start |-> 0, end |-> 0, buf |-> << >>],
     err |-> "none",
     \* what the reader has put on the queue so far, in order
     puts |-> << >>]

\* No message: the writer's local 'batch' before its first get().
NoBatch == [type |-> "none", start |-> 0, end |-> 0, buf |-> << >>]

InitWriter ==
    [blocks_written |-> NoneVal, bytes_written |-> NoneVal,
     fsync_last |-> NoneVal, pos |-> 0,
     \* the message the writer loop has taken from the queue
     batch |-> NoBatch]

InitCommon ==
    /\ pc = "new"
    /\ eng = NoEngine
    /\ rd = IdleReader
    /\ queue = << >>
    /\ wr = InitWriter
    /\ log = << >>
    /\ exc = "none"
    /\ result = "running"

\* The device's tunables before the run; nothing was done to them yet.
InitSys(sched) ==
    [sched |-> sched, ratio |-> 100, sched0 |-> sched, ratio0 |-> 100,
     tuned |-> FALSE, restored |-> FALSE, restore_failed |-> FALSE,
     \* the tunables whose write-back the restore step attempted
     attempted |-> {},
     \* the calls of sync() that returned, before copy() and after it; what
     \* a call raised; the places in the log of what these calls did
     presyncs |-> 0, syncs |-> 0, sync_exc |-> "none", sync_ops |-> {}]

\* Copies to a regular file of the image as generated, with every block map
\* of RangeTextLists.
InitPlain ==
    /\ dest = StaleDest(ImageBytes + 1)
    /\ \E engine \in {"v1", "v26"}, texts \in RangeTextLists, withSha \in BOOLEAN :
          \E mapped \in {SumRanges(texts), 2} :
              cfg = [engine |-> engine, bdev |-> FALSE, has_bmap |-> TRUE,
                     bmap |-> BmapOf(texts, withSha, mapped),
                     image |-> ImageOf(ImageBytes, 0), image_size |-> NoneVal,
                     compressed |-> FALSE, devnull |-> FALSE, dest0 |-> dest,
                     verify |-> TRUE, sync |-> TRUE, progress |-> FALSE]
    /\ sys = InitSys("cfq")
    /\ InitCommon

\* The block maps of InitRuns: two whole batches, a map with a hole at the
\* end, one range of two batches, a range of the form 'N' after a hole, and
\* a range with first > last after a good one.
RunTextLists ==
    { << <<0, 1>>, <<2, 3>> >>, << <<0, 2>> >>, << <<0, 3>> >>,
      << <<0, 1>>, <<3>> >>, << <<0, 1>>, <<3, 2>> >> }

\* Copies to a regular file, empty or longer than the image, of an image as
\* generated, altered or cut short, with and without verification and
\* a progress indicator.
InitRuns ==
    /\ \E engine \in {"v1", "v26"}, texts \in RunTextLists, withSha \in BOOLEAN,
          image \in Images, verify \in BOOLEAN, progress \in BOOLEAN :
          /\ (~withSha => verify)
          /\ (engine = "v1" => ~progress)
          /\ dest \in (IF engine = "v26" THEN {<< >>, StaleDest(ImageBytes + 1)}
                        ELSE {StaleDest(ImageBytes + 1)})
          /\ \E mapped \in {SumRanges(texts), 2} :
                cfg = [engine |-> engine, bdev |-> FALSE, has_bmap |-> TRUE,
                       bmap |-> BmapOf(texts, withSha, mapped),
                       image |-> image, image_size |-> NoneVal,
                       compressed |-> FALSE, devnull |-> FALSE, dest0 |-> dest,
                       verify |-> verify, sync |-> TRUE,
                       progress |-> progress]
    /\ sys = InitSys("cfq")
    /\ InitCommon

\* Copies to a block device.
InitBdev ==
    /\ dest = StaleDest(ImageBytes + BlockSize)
    /\ \E engine \in {"v1", "v26"},
          texts \in { << <<0, 1>>, <<2, 3>> >>, << <<0, 2>> >> },
          image \in { ImageOf(ImageBytes, 0), ImageOf(ImageBytes, ImageBytes - 1) },
          sync \in BOOLEAN :
          \E mapped \in {SumRanges(texts), 2} :
              cfg = [engine |-> engine, bdev |-> TRUE, has_bmap |-> TRUE,
                     bmap |-> BmapOf(texts, TRUE, mapped),
                     image |-> image, image_size |-> NoneVal,
                     compressed |-> FALSE, devnull |-> FALSE, dest0 |-> dest,
                     verify |-> TRUE, sync |-> sync,
                     progress |-> FALSE]
    /\ \E s \in {"cfq", "deadline"} : sys = InitSys(s)
    /\ InitCommon

\* The block maps of InitBeyond: a second range that crosses the end of the
\* device, and one that starts beyond it.
BeyondTextLists == { << <<0, 1>>, <<2, 3>> >>, << <<0, 1>>, <<3, 3>> >> }

\* Copies to a block device that holds the image the document describes
\* (half the blocks of the image file, and one byte more) but not the
\* ranges the document lists.
InitBeyond ==
    /\ dest = StaleDest(ImageBytes \div 2 + 1)
    /\ \E engine \in {"v1", "v26"}, texts \in BeyondTextLists :
          cfg = [engine |-> engine, bdev |-> TRUE, has_bmap |-> TRUE,
                 bmap |-> BmapDoc(1, NBlocks \div 2, SumRanges(texts),
                                  ImageBytes \div 2, TRUE, texts, FALSE),
                 image |-> ImageOf(ImageBytes, 0), image_size |-> NoneVal,
                 compressed |-> FALSE, devnull |-> FALSE, dest0 |-> dest,
                 verify |-> TRUE, sync |-> TRUE, progress |-> FALSE]
    /\ sys = InitSys("cfq")
    /\ InitCommon

\* Image lengths of the copies without a bmap: empty, less than a block,
\* whole batches, a batch and one byte.
NoBmapLens == {0, 1, BatchBytes, BatchBytes + 1, 2 * BatchBytes}

\* Copies without a bmap: BmapCopy2_6.py with and without the image_size
\* argument (right or wrong), BmapCopy.py with a plain or a compressed image.
InitNoBmap ==
    /\ \E engine \in {"v1", "v26"}, len \in NoBmapLens, bdev \in BOOLEAN,
          compressed \in BOOLEAN, progress \in BOOLEAN :
          /\ (engine = "v1" => ~progress)
          /\ (engine = "v26" => ~compressed)
          /\ (bdev => ~progress)
          /\ dest = IF bdev THEN StaleDest(2 * BatchBytes)
                    ELSE StaleDest(ImageBytes + 1)
          /\ \E arg \in (IF engine = "v26" THEN {NoneVal, len, len + BlockSize}
                          ELSE {NoneVal}) :
                cfg = [engine |-> engine, bdev |-> bdev, has_bmap |-> FALSE,
                       bmap |-> BmapOf(<< >>, FALSE, 0),
                       image |-> ImageOf(len, 0), image_size |-> arg,
                       compressed |-> compressed, devnull |-> FALSE, dest0 |-> dest,
                       verify |-> TRUE, sync |-> TRUE, progress |-> progress]
    /\ sys = InitSys("cfq")
    /\ InitCommon

\* Copies with block maps whose metadata varies: the major version, the
\* BlocksCount, the ImageSize (possibly absent), with an image_size argument
\* that agrees or not (BmapCopy2_6.py), to a file or to a device that is or
\* is not large enough.
InitMeta ==
    /\ \E engine \in {"v1", "v26"}, major \in {1, 2},
          blocks \in {0, NBlocks - 1, NBlocks},
          size \in {ImageBytes - 1, ImageBytes}, hasSize \in BOOLEAN,
          bdev \in BOOLEAN, cap \in {ImageBytes - 1, ImageBytes} :
          /\ (~bdev => cap = ImageBytes)
          /\ dest = IF bdev THEN StaleDest(cap) ELSE StaleDest(ImageBytes + 1)
          /\ \E arg \in (IF engine = "v26"
                          THEN {NoneVal, size, size - BlockSize}
                          ELSE {NoneVal}) :
                cfg = [engine |-> engine, bdev |-> bdev, has_bmap |-> TRUE,
                       bmap |-> BmapDoc(major, blocks, NBlocks, size, hasSize,
                                        << <<0, NBlocks - 1>> >>, FALSE),
                       image |-> ImageOf(size, 0), image_size |-> arg,
                       compressed |-> FALSE, devnull |-> FALSE, dest0 |-> dest,
                       verify |-> TRUE, sync |-> TRUE, progress |-> FALSE]
    /\ sys = InitSys("cfq")
    /\ InitCommon

\* Ranges of an image with more batches than the watermark counts and than
\* the queue of a block device copy, the reader and the writer hold together.
LongRanges == Max(QueueLenBdev, WatermarkBatches) + 3

\* The ranges of that image: each a batch of blocks, after a first range of
\* 'lead' blocks (none when lead = 0).
LongTexts(lead) ==
    (IF lead = 0 THEN << >> ELSE << << 0, lead - 1 >> >>)
    \o [i \in 1..LongRanges |->
          << lead + (i - 1) * BatchBlocksScaled,
             lead + i * BatchBlocksScaled - 1 >>]

\* A copy to a block device of an image of LongRanges batches, each a Range
\* of its own, with or without a first Range of one block.
InitLong ==
    /\ \E engine \in {"v1", "v26"}, lead \in {0, 1} :
          LET blocks == lead + LongRanges * BatchBlocksScaled IN
          /\ dest = StaleDest(blocks * BlockSize)
          /\ cfg = [engine |-> engine, bdev |-> TRUE, has_bmap |-> TRUE,
                    bmap |-> BmapDoc(1, blocks, blocks, blocks * BlockSize,
                                     TRUE, LongTexts(lead), FALSE),
                    image |-> ImageOf(blocks * BlockSize, 0),
                    image_size |-> NoneVal,
                    compressed |-> FALSE, devnull |-> FALSE, dest0 |-> dest,
                    verify |-> TRUE, sync |-> TRUE, progress |-> FALSE]
    /\ sys = InitSys("cfq")
    /\ InitCommon

\* The block sizes of the maps of InitBlockSize: one byte, less and more than
\* a batch without dividing it, two batches.
BlockSizes == {1, BatchBytes - 1, BatchBytes + 1, 2 * BatchBytes}

\* Copies with block maps that declare another BlockSize, of an image of
\* ImageBytes bytes that is one Range.
InitBlockSize ==
    /\ \E engine \in {"v1", "v26"}, bs \in BlockSizes :
          LET blocks == (ImageBytes + bs - 1) \div bs IN
          /\ dest = StaleDest(ImageBytes + 1)
          /\ cfg = [engine |-> engine, bdev |-> FALSE, has_bmap |-> TRUE,
                    bmap |-> [BmapDoc(1, blocks, blocks, ImageBytes, TRUE,
                                      << <<0, blocks - 1>> >>, FALSE)
                                EXCEPT !.block_size = bs],
                    image |-> ImageOf(ImageBytes, 0), image_size |-> NoneVal,
                    compressed |-> FALSE, devnull |-> FALSE, dest0 |-> dest,
                    verify |-> TRUE, sync |-> TRUE, progress |-> FALSE]
    /\ sys = InitSys("cfq")
    /\ InitCommon

\* The versions of the documents of InitChecksum: below the checksum's
\* baseline 1.3, at it, and above it with a minor number below and at 3.
ChecksumVersions == { <<1, 2>>, <<1, 3>>, <<2, 0>>, <<2, 3>> }

\* Copies by BmapCopy2_6.py with block maps of these versions that carry
\* their own checksum, as generated or tampered with, to a file or to a
\* block device smaller than the image.
InitChecksum ==
    /\ \E version \in ChecksumVersions, how \in Tampers, bdev \in BOOLEAN :
          /\ dest = IF bdev THEN StaleDest(ImageBytes - 1)
                    ELSE StaleDest(ImageBytes + 1)
          /\ cfg = [engine |-> "v26", bdev |-> bdev, has_bmap |-> TRUE,
                    bmap |-> Tampered(
                               SignedDoc(BmapOf(<< <<0, NBlocks - 1>> >>, FALSE,
                                                NBlocks),
                                         version[1], version[2]),
                               how),
                    image |-> ImageOf(ImageBytes, 0), image_size |-> NoneVal,
                    compressed |-> FALSE, devnull |-> FALSE, dest0 |-> dest,
                    verify |-> TRUE, sync |-> TRUE, progress |-> FALSE]
    /\ sys = InitSys("cfq")
    /\ InitCommon

\* Copies by BmapCopy2_6.py to /dev/null: a character device that takes
\* every write, holds nothing, and does not support fsync.
InitDevNull ==
    /\ dest = << >>
    /\ \E texts \in { << <<0, NBlocks - 1>> >>, << <<0, 1>>, <<3>> >> },
          sync \in BOOLEAN :
          cfg = [engine |-> "v26", bdev |-> FALSE, has_bmap |-> TRUE,
                 bmap |-> BmapOf(texts, TRUE, SumRanges(texts)),
                 image |-> ImageOf(ImageBytes, 0), image_size |-> NoneVal,
                 compressed |-> FALSE, devnull |-> TRUE, dest0 |-> dest,
                 verify |-> TRUE, sync |-> sync, progress |-> FALSE]
    /\ sys = InitSys("cfq")
    /\ InitCommon

Init ==
    \/ InitPlain \/ InitRuns \/ InitBdev \/ InitNoBmap \/ InitMeta \/ InitLong
    \/ InitBlockSize \/ InitChecksum \/ InitDevNull \/ InitBeyond

\* -------------------------------------------------------- construction
\* _parse_bmap of BmapCopy2_6.py.  The version test compares an int with
\* the string "1.0", which Python 2 never finds greater.  A document without
\* an ImageSize element makes xml.find("ImageSize") None, whose .text raises
\* AttributeError; mapped_percent divides by blocks_cnt.
ParseBmap26(b) ==
    [err |-> IF ~b.has_image_size THEN "AttributeError"
             ELSE IF b.blocks_cnt = 0 THEN "ZeroDivisionError"
             ELSE IF b.blocks_cnt
                       # (b.image_size + b.block_size - 1) \div b.block_size
                  THEN "Error:metadata"
                  ELSE IF b.major >= 1 /\ b.minor >= 3 /\ ~VerifyBmapChecksum(b)
                  THEN "Error:bmapchecksum"
                  ELSE "none",
     block_size |-> b.block_size, blocks_cnt |-> b.blocks_cnt,
     mapped_cnt |-> b.mapped_cnt, image_size |-> b.image_size,
     mapped_size |-> b.mapped_cnt * b.block_size]

\* The attributes without a bmap, before any size is known.
NoBmapDefaults ==
    [err |-> "none", block_size |-> DefaultBlockSize, blocks_cnt |-> NoneVal,
     mapped_cnt |-> NoneVal, image_size |-> NoneVal, mapped_size |-> NoneVal]

\* A variant of _set_image_size without the test of the value already set
\* (used to test that C14 depends on it).
SetImageSizeOverwrites(e, image_size) ==
    LET blocks == (image_size + e.block_size - 1) \div e.block_size IN
    [err |-> "none",
     eng |-> [e EXCEPT !.image_size = image_size,
                       !.blocks_cnt = blocks,
                       !.mapped_cnt = IF @ = NoneVal THEN blocks ELSE @,
                       !.mapped_size = IF e.mapped_cnt = NoneVal
                                       THEN image_size ELSE @]]

\* A variant of _set_image_size that counts the whole blocks of the image
\* only (used to test that C15 depends on the blocks-written check).
SetImageSizeFloors(e, image_size) ==
    IF e.image_size # NoneVal /\ e.image_size # image_size
    THEN [err |-> "Error:imagesize", eng |-> e]
    ELSE LET blocks == image_size \div e.block_size IN
         [err |-> "none",
          eng |-> [e EXCEPT !.image_size = image_size,
                            !.blocks_cnt = blocks,
                            !.mapped_cnt = IF @ = NoneVal THEN blocks ELSE @,
                            !.mapped_size = IF e.mapped_cnt = NoneVal
                                            THEN image_size ELSE @]]

\* _set_image_size: a set-once field.
SetImageSize(e, image_size) ==
    IF e.image_size # NoneVal /\ e.image_size # image_size
    THEN [err |-> "Error:imagesize", eng |-> e]
    ELSE LET blocks == (image_size + e.block_size - 1) \div e.block_size IN
         [err |-> "none",
          eng |-> [e EXCEPT !.image_size = image_size,
                            !.blocks_cnt = blocks,
                            !.mapped_cnt = IF @ = NoneVal THEN blocks ELSE @,
                            !.mapped_size = IF e.mapped_cnt = NoneVal
                                            THEN image_size ELSE @]]

\* _initialize_sizes of BmapCopy.py: the sizes without a bmap.
InitializeSizes(e, image_size) ==
    LET blocks == (image_size + e.block_size - 1) \div e.block_size IN
    [e EXCEPT !.image_size = image_size, !.blocks_cnt = blocks,
              !.mapped_cnt = blocks, !.mapped_size = image_size]

\* _parse_bmap of BmapCopy.py: no ImageSize field is read.
ParseBmapV1(b) ==
    [err |-> IF b.major > 1 THEN "Error:version"
             ELSE IF b.blocks_cnt = 0 THEN "ZeroDivisionError"
             ELSE "none",
     block_size |-> b.block_size, blocks_cnt |-> b.blocks_cnt,
     mapped_cnt |-> b.mapped_cnt, image_size |-> b.blocks_cnt * b.block_size,
     mapped_size |-> b.mapped_cnt * b.block_size]

\* The attributes the constructors leave: BmapCopy.__init__ and
\* BmapBdevCopy.__init__ of both files.
EngineOf(p, engine, bdev) ==
    [block_size |-> p.block_size, blocks_cnt |-> p.blocks_cnt,
     mapped_cnt |-> p.mapped_cnt, image_size |-> p.image_size,
     mapped_size |-> p.mapped_size,
     batch_blocks |-> BatchBytes \div p.block_size,
     queue_len |-> IF bdev THEN QueueLenBdev ELSE QueueLenPlain,
     watermark |-> IF bdev /\ engine = "v26"
                   THEN WatermarkBytes \div p.block_size ELSE NoneVal,
     old_sched |-> "", old_ratio |-> NoneVal]

\* BmapBdevCopy.__init__: the image must fit the block device.
CapacityError(p, bdev, capacity) ==
    bdev /\ Truthy(p.image_size) /\ capacity < p.image_size

\* What _parse_bmap or the no-bmap branch of the constructor leaves.
ParsedOrDefaults ==
    IF cfg.engine = "v26"
    THEN IF cfg.has_bmap THEN ParseBmap26(cfg.bmap) ELSE NoBmapDefaults
    ELSE IF cfg.has_bmap THEN ParseBmapV1(cfg.bmap)
         ELSE IF cfg.compressed THEN NoBmapDefaults
         ELSE InitializeSizes(NoBmapDefaults, Len(cfg.image))

Construct ==
    /\ pc = "new"
    /\ LET p == ParsedOrDefaults
           \* BmapCopy._open_destination_file of BmapCopy.py: open(path, 'w+')
           d == IF cfg.engine = "v1" /\ ~cfg.bdev THEN << >> ELSE dest
           e0 == EngineOf(p, cfg.engine, cfg.bdev)
           \* if image_size: self._set_image_size(image_size)
           s == IF p.err = "none" /\ cfg.engine = "v26" /\ Truthy(cfg.image_size)
                THEN SetImageSize(e0, cfg.image_size)
                ELSE [err |-> "none", eng |-> e0]
           err == IF p.err # "none" THEN p.err
                  ELSE IF s.err # "none" THEN s.err
                  ELSE IF CapacityError(s.eng, cfg.bdev, Len(d))
                  THEN "Error:capacity"
                  ELSE "none"
       IN /\ dest' = d
          /\ eng' = IF p.err # "none" THEN eng ELSE s.eng
          /\ pc' = IF err # "none" THEN "done" ELSE "ready"
          /\ result' = IF err # "none" THEN err ELSE result
    /\ UNCHANGED << cfg, rd, queue, wr, log, sys, exc >>

\* ------------------------------------------------ block device tuning
\* What can go wrong with a pseudo-file: its open, its read, its write, or
\* the flush of the buffered write when the file is closed.
TuneFaults26 == {"none", "open", "read", "write", "close"}
TuneFaultsV1 == {"none", "open", "write", "close"}

\* _tune_block_device of BmapCopy2_6.py: every IOError is caught and logged.
Tune26(fs, fr) ==
    LET contents == SchedulerContents(sys.sched)
        sched_ok == fs = "none"
        old_s == IF sched_ok THEN BracketedName(contents) ELSE ""
        ratio_read == fr \in {"none", "write", "close"}
    IN /\ sys' = [sys EXCEPT !.sched = IF sched_ok THEN "noop" ELSE @,
                            !.ratio = IF fr = "none" THEN 1 ELSE @,
                            !.tuned = TRUE]
       /\ eng' = [eng EXCEPT !.old_sched = old_s,
                            !.old_ratio = IF ratio_read THEN sys.ratio ELSE NoneVal]
       /\ pc' = "tuned"
       /\ UNCHANGED << exc, result >>

\* _tune_block_device of BmapCopy.py: open() and write() are guarded, close()
\* is not, and nothing is recorded.  copy() then sets the watermark.
TuneV1(fs, fr) ==
    LET raised == fs = "close" \/ fr = "close"
    IN /\ sys' = [sys EXCEPT !.sched = IF fs = "none" THEN "noop" ELSE @,
                            !.ratio = IF fs # "close" /\ fr = "none" THEN 1 ELSE @,
                            !.tuned = TRUE]
       /\ eng' = IF raised THEN eng
                 ELSE [eng EXCEPT !.watermark = WatermarkBytes \div eng.block_size]
       /\ pc' = IF raised THEN "done" ELSE "tuned"
       /\ exc' = IF raised THEN "IOError:tune" ELSE exc
       /\ result' = IF raised THEN "IOError:tune" ELSE result

TuneBlockDevice ==
    /\ pc = "ready"
    /\ cfg.bdev
    /\ IF cfg.engine = "v26"
       THEN \E fs \in TuneFaults26, fr \in TuneFaults26 : Tune26(fs, fr)
       ELSE \E fs \in TuneFaultsV1, fr \in TuneFaultsV1 : TuneV1(fs, fr)
    /\ UNCHANGED << cfg, rd, queue, wr, dest, log >>

\* ------------------------------------------------------------ copy()
\* How BmapCopy.copy ends with outcome e ("ok" or an exception): the caller
\* gets it at once, except under BmapBdevCopy.copy of BmapCopy2_6.py, whose
\* 'finally' runs _restore_bdev_settings first.
CopyEnds(e) ==
    /\ exc' = e
    /\ IF cfg.engine = "v26" /\ cfg.bdev
       THEN pc' = "restore" /\ result' = result
       ELSE pc' = "done" /\ result' = e

LogOp(op, off, len) == Append(log, [op |-> op, off |-> off, len |-> len])

\* self._dest_is_regfile: stat.S_ISREG of the destination.
DestIsRegfile == ~cfg.bdev /\ ~cfg.devnull

\* self._dest_supports_fsync of BmapCopy2_6.py: False for /dev/null only.
DestSupportsFsync == ~cfg.devnull

\* A write that would go beyond the end of a block device: the device does
\* not grow, the write raises IOError.
BeyondDevice(off, len) == cfg.bdev /\ off + len > Len(dest)

\* The bytes of such a write that reach the device: those before its end.
FitsDevice(off, len) == Max(0, Min(len, Len(dest) - off))

\* file.seek(off) raises IOError when off lies beyond the end of a block
\* device; a regular file takes any offset.
SeekFails(off) == cfg.bdev /\ off > Len(dest)

\* How many bytes of buf a write() at off that raises may have put in the
\* destination before it failed: fewer than all of them, and on a block
\* device no more than fit before its end (all that fit when the end of
\* the device is what makes the write fail).
FailedWriteFits(off, buf) ==
    0..Min(Len(buf) - 1,
           IF cfg.bdev THEN FitsDevice(off, Len(buf)) ELSE Len(buf))

\* The destination after a write() of buf at off that raised when k bytes
\* had been put there.  /dev/null keeps nothing of what is written to it.
AfterFailedWrite(off, buf, k) ==
    IF k = 0 \/ cfg.devnull THEN dest
    ELSE WriteAt(dest, off, SubSeq(buf, 1, k))

\* The first lines of copy(): BmapCopy2_6.py creates the queue and starts the
\* reader thread; BmapCopy.py resets its counters.
StartCopy ==
    /\ (pc = "ready" /\ ~cfg.bdev) \/ pc = "tuned"
    /\ queue' = << >>
    /\ IF cfg.engine = "v26"
       THEN /\ pc' = "loop"
            /\ rd' = [rd EXCEPT !.pc = "next"]
            /\ wr' = [wr EXCEPT !.blocks_written = 0, !.bytes_written = 0,
                                !.fsync_last = 0, !.pos = 0]
       ELSE IF cfg.has_bmap
       THEN /\ pc' = "v1_range"
            /\ rd' = rd
            /\ wr' = [wr EXCEPT !.blocks_written = 0, !.bytes_written = 0,
                                !.fsync_last = 0, !.pos = 0]
       \* if not self._f_bmap: self._copy_entire_image(sync); return
       ELSE /\ pc' = "v1_entire"
            /\ rd' = rd
            /\ wr' = [wr EXCEPT !.bytes_written = 0, !.pos = 0]
    /\ UNCHANGED << cfg, eng, dest, log, sys, exc, result >>

\* ----------------------------------------- the reader thread: _get_data
\* An exception in _get_data reaches 'except Exception:', whose handler
\* evaluates the undefined name exc_info: NameError ends the thread and
\* nothing is put on the queue.
ReaderRaises(kind) == [rd EXCEPT !.pc = "crashed", !.err = kind]

EndMsg == [type |-> "end", start |-> 0, end |-> 0, buf |-> << >>]

\* _get_block_ranges of BmapCopy2_6.py without a bmap: one range for the
\* whole image when blocks_cnt is known, else ranges of _batch_blocks blocks
\* without end.
NoBmapRange(idx) ==
    IF Truthy(eng.blocks_cnt)
    THEN [err |-> "none", first |-> 0, last |-> eng.blocks_cnt - 1,
          sha1 |-> NoSha]
    ELSE [err |-> "none", first |-> idx * eng.batch_blocks,
          last |-> idx * eng.batch_blocks + eng.batch_blocks - 1,
          sha1 |-> NoSha]

\* The generator _get_block_ranges has nothing more to yield.
RangesDone26 ==
    IF cfg.has_bmap THEN rd.idx = Len(cfg.bmap.ranges)
    ELSE Truthy(eng.blocks_cnt) /\ rd.idx = 1

\* The end of the inner loop (the range's checksum test) and the next step of
\* _get_block_ranges.
ReaderAdvance ==
    /\ cfg.engine = "v26"
    /\ rd.pc = "next"
    /\ LET ranges == cfg.bmap.ranges IN
       IF rd.idx > 0 /\ cfg.verify /\ rd.sha1 # NoSha /\ rd.hash # rd.sha1
       THEN rd' = ReaderRaises("checksum")
       ELSE IF RangesDone26
       THEN rd' = [rd EXCEPT !.pc = "put", !.msg = EndMsg]
       ELSE LET r == IF cfg.has_bmap THEN RangeOf26(ranges[rd.idx + 1])
                     ELSE NoBmapRange(rd.idx) IN
            IF r.err # "none"
            THEN rd' = ReaderRaises(r.err)
            ELSE rd' = [rd EXCEPT !.pc = "read", !.idx = rd.idx + 1,
                                  !.first = r.first, !.last = r.last,
                                  !.sha1 = r.sha1,
                                  !.hash = IF cfg.verify /\ r.sha1 # NoSha
                                           THEN HashInit ELSE NoneVal,
                                  !.pos = r.first * eng.block_size,
                                  !.batches = BatchesOf(r.first, r.last,
                                                        eng.batch_blocks)]
    /\ UNCHANGED << cfg, pc, eng, queue, wr, dest, log, sys, exc, result >>

\* A variant of the read that puts the batch's nominal end block with what
\* was read (used to test that C38 depends on the end computed from the
\* bytes read).
ReaderReadNominalEnd ==
    /\ cfg.engine = "v26"
    /\ rd.pc = "read"
    /\ \E fail \in BOOLEAN :
         LET b == Head(rd.batches)
             buf == ReadAt(cfg.image, rd.pos, b.length * eng.block_size)
         IN IF fail THEN rd' = ReaderRaises("read")
            ELSE IF buf = << >>
            THEN rd' = [rd EXCEPT !.pc = "put", !.msg = EndMsg]
            ELSE rd' = [rd EXCEPT !.pc = "put",
                                  !.msg = [type |-> "range", start |-> b.start,
                                           end |-> b.end, buf |-> buf],
                                  !.hash = IF cfg.verify /\ rd.sha1 # NoSha
                                           THEN HashUpdate(rd.hash, buf) ELSE @,
                                  !.pos = rd.pos + Len(buf),
                                  !.batches = Tail(rd.batches)]
    /\ UNCHANGED << cfg, pc, eng, queue, wr, dest, log, sys, exc, result >>

\* One read of the image: a batch, fewer bytes at the end of the image, or
\* an IOError.
ReaderRead ==
    /\ cfg.engine = "v26"
    /\ rd.pc = "read"
    /\ \E fail \in BOOLEAN :
         LET b == Head(rd.batches)
             buf == ReadAt(cfg.image, rd.pos, b.length * eng.block_size)
             blocks == (Len(buf) + eng.block_size - 1) \div eng.block_size
         IN IF fail THEN rd' = ReaderRaises("read")
            ELSE IF buf = << >>
            THEN rd' = [rd EXCEPT !.pc = "put", !.msg = EndMsg]
            ELSE rd' = [rd EXCEPT !.pc = "put",
                                  !.msg = [type |-> "range", start |-> b.start,
                                           end |-> b.start + blocks - 1,
                                           buf |-> buf],
                                  !.hash = IF cfg.verify /\ rd.sha1 # NoSha
                                           THEN HashUpdate(rd.hash, buf) ELSE @,
                                  !.pos = rd.pos + Len(buf),
                                  !.batches = Tail(rd.batches)]
    /\ UNCHANGED << cfg, pc, eng, queue, wr, dest, log, sys, exc, result >>

\* Queue.Queue(maxsize): put() and get() block on a full and on an empty
\* queue.  A variant whose queue is never full (used to test that C23 depends
\* on the queue's bound).
QueueNeverFull(q, maxsize) == FALSE

QueueFull(q, maxsize) == Len(q) >= maxsize

QueueEmpty(q) == q = << >>

\* A variant of put() that adds the item at the head of the queue (used to
\* test that C25 depends on the queue's order).
QueuePutAtHead(q, item) == << item >> \o q

\* Queue.put(item), Queue.get(): first in, first out.
QueuePut(q, item) == Append(q, item)

\* self._batch_queue.put(...): blocks while the queue is full.
ReaderPut ==
    /\ cfg.engine = "v26"
    /\ rd.pc = "put"
    /\ ~QueueFull(queue, eng.queue_len)
    /\ queue' = QueuePut(queue, rd.msg)
    /\ rd' = [rd EXCEPT !.pc = IF rd.msg.type = "end" THEN "done"
                               ELSE IF rd.batches = << >> THEN "next"
                               ELSE "read",
                        !.puts = Append(@, [type |-> rd.msg.type,
                                            start |-> rd.msg.start,
                                            end |-> rd.msg.end,
                                            len |-> Len(rd.msg.buf)])]
    /\ UNCHANGED << cfg, pc, eng, wr, dest, log, sys, exc, result >>

\* ------------------------------------------- the writer loop of copy()
\* A variant of the test that waits until more than the watermark was written
\* (used to test that C33 depends on the test).
SyncDueAbove(watermark, blocks_written, fsync_last) ==
    /\ watermark # NoneVal
    /\ watermark # 0
    /\ blocks_written > fsync_last + watermark

\* The periodic synchronization test of the writer loop.
SyncDue(watermark, blocks_written, fsync_last) ==
    /\ watermark # NoneVal
    /\ watermark # 0
    /\ blocks_written >= fsync_last + watermark

\* _update_progress: with a progress file and a nonzero mapped_cnt the code
\* asserts blocks_written <= mapped_cnt.
ProgressAssertFails(progress, mapped_cnt, blocks_written) ==
    progress /\ Truthy(mapped_cnt) /\ blocks_written > mapped_cnt

\* The position of the destination file after a seek or a write that leaves
\* a file or a block device at p: the position of /dev/null stays 0.
DestPos(p) == IF cfg.devnull THEN 0 ELSE p

\* The two assertions of the writer loop on the batch it has taken.
BatchLenOk(m) ==
    /\ Len(m.buf) <= (m.end - m.start + 1) * eng.block_size
    /\ Len(m.buf) > (m.end - m.start) * eng.block_size

\* The periodic synchronization of the writer loop: the sync point is noted,
\* then sync() calls os.fsync, in which the writer waits; the write of the
\* batch follows when it has returned.
PeriodicSync ==
    /\ wr' = [wr EXCEPT !.fsync_last = wr.blocks_written,
                        !.pos = DestPos(wr.batch.start * eng.block_size)]
    /\ dest' = dest
    /\ \E fail \in BOOLEAN :
         IF ~DestSupportsFsync
         THEN ~fail /\ log' = log /\ pc' = "write" /\ UNCHANGED << exc, result >>
         ELSE IF fail THEN log' = log /\ CopyEnds("Error:sync")
         ELSE /\ log' = LogOp("sync", 0, 0)
              /\ pc' = "write"
              /\ UNCHANGED << exc, result >>

\* The write of the batch m = ("range", start, end, buf) at the offset the
\* destination was sought to, and the end of the turn of the writer loop;
\* f is what fails: nothing or the write.
WriteBatch(m, f) ==
    LET off == m.start * eng.block_size
        written == f = "none"
        bw == wr.blocks_written + (m.end - m.start + 1)
    IN /\ (BeyondDevice(off, Len(m.buf)) => f = "write")
       /\ log' = IF written THEN LogOp("write", off, Len(m.buf)) ELSE log
       /\ IF written
          THEN /\ dest' = IF cfg.devnull THEN dest
                          ELSE WriteAt(dest, off, m.buf)
               /\ wr' = [wr EXCEPT !.blocks_written = bw,
                                   !.bytes_written = @ + Len(m.buf),
                                   !.pos = DestPos(off + Len(m.buf))]
          ELSE \E k \in FailedWriteFits(off, m.buf) :
                 /\ dest' = AfterFailedWrite(off, m.buf, k)
                 /\ wr' = [wr EXCEPT !.pos = DestPos(off + k)]
       /\ IF f = "write" THEN CopyEnds("Error:write")
          ELSE IF ProgressAssertFails(cfg.progress, eng.mapped_cnt, bw)
          THEN CopyEnds("AssertionError")
          ELSE pc' = "loop" /\ UNCHANGED << exc, result >>

\* batch = self._batch_queue.get(): blocks while the queue is empty, and
\* returns with the message taken from the queue, whose place is free for
\* the reader while the writer handles the message.
WriterGet ==
    /\ cfg.engine = "v26"
    /\ pc = "loop"
    /\ ~QueueEmpty(queue)
    /\ queue' = Tail(queue)
    /\ wr' = [wr EXCEPT !.batch = Head(queue)]
    /\ pc' = "batch"
    /\ UNCHANGED << cfg, eng, rd, dest, log, sys, exc, result >>

\* A turn of the writer loop after get(), up to the next call in which the
\* writer waits: the loop ends at the end of the stream, fails on an error
\* message (whose re-raise calls with_traceback, which an exception of
\* Python 2 does not have), or checks the batch it has taken, seeks the
\* destination to its offset and then either synchronizes the destination,
\* when the watermark is reached, or writes the batch.
WriterBody ==
    /\ cfg.engine = "v26"
    /\ pc = "batch"
    /\ LET m == wr.batch IN
       IF m.type = "end"
       THEN /\ pc' = "final_check"
            /\ UNCHANGED << wr, dest, log, exc, result >>
       ELSE IF m.type = "error"
       THEN /\ CopyEnds("AttributeError")
            /\ UNCHANGED << wr, dest, log >>
       ELSE IF ~BatchLenOk(m)
       THEN /\ CopyEnds("AssertionError")
            /\ UNCHANGED << wr, dest, log >>
       ELSE IF SeekFails(m.start * eng.block_size)
       THEN /\ CopyEnds("IOError:seek")
            /\ UNCHANGED << wr, dest, log >>
       ELSE IF SyncDue(eng.watermark, wr.blocks_written, wr.fsync_last)
       THEN PeriodicSync
       ELSE \E f \in {"none", "write"} : WriteBatch(m, f)
    /\ UNCHANGED << cfg, eng, rd, queue, sys >>

\* The write of the batch after a periodic synchronization has returned.
WriterWrite ==
    /\ cfg.engine = "v26"
    /\ pc = "write"
    /\ \E f \in {"none", "write"} : WriteBatch(wr.batch, f)
    /\ UNCHANGED << cfg, eng, rd, queue, sys >>

\* A variant of the sanity check that notes the inconsistent count and goes
\* on with the finalization (used to test that C10 depends on the check
\* ending the copy).
FinalCheckGoesOn ==
    /\ pc = "final_check"
    /\ eng' = eng
    /\ exc' = IF wr.blocks_written # eng.mapped_cnt
              THEN (IF cfg.has_bmap THEN "Error:inconsistent"
                    ELSE "AttributeError")
              ELSE exc
    /\ pc' = IF DestIsRegfile THEN "truncate" ELSE "flush"
    /\ UNCHANGED << cfg, rd, queue, wr, dest, log, sys, result >>

\* After the loop: the image size is set if it was unknown, then the
\* blocks-written sanity check, whose message names self._bmap_path, an
\* attribute the constructor sets only when it is given a bmap: without one
\* the failing check raises AttributeError.
FinalCheck ==
    /\ pc = "final_check"
    /\ LET s == IF eng.image_size = NoneVal \/ eng.image_size = 0
                 THEN SetImageSize(eng, wr.bytes_written)
                 ELSE [err |-> "none", eng |-> eng]
       IN /\ eng' = s.eng
          /\ IF s.err # "none" THEN CopyEnds(s.err)
             ELSE IF wr.blocks_written # s.eng.mapped_cnt
             THEN CopyEnds(IF cfg.has_bmap THEN "Error:inconsistent"
                           ELSE "AttributeError")
             ELSE /\ pc' = IF DestIsRegfile THEN "truncate" ELSE "flush"
                  /\ UNCHANGED << exc, result >>
    /\ UNCHANGED << cfg, rd, queue, wr, dest, log, sys >>

\* os.ftruncate(self._f_dest.fileno(), self.image_size) for a regular file.
Truncate ==
    /\ pc = "truncate"
    /\ \E fail \in BOOLEAN :
         IF fail THEN CopyEnds("Error:truncate") /\ UNCHANGED << dest, log >>
         ELSE /\ dest' = TruncateTo(dest, eng.image_size)
              /\ log' = LogOp("truncate", eng.image_size, 0)
              /\ pc' = "flush"
              /\ UNCHANGED << exc, result >>
    /\ UNCHANGED << cfg, eng, rd, queue, wr, sys >>

\* self._f_dest.flush()
Flush ==
    /\ pc = "flush"
    /\ \E fail \in BOOLEAN :
         IF fail THEN CopyEnds("Error:flush") /\ UNCHANGED log
         ELSE /\ log' = LogOp("flush", 0, 0)
              /\ IF cfg.sync THEN pc' = "sync" /\ UNCHANGED << exc, result >>
                 ELSE CopyEnds("ok")
    /\ UNCHANGED << cfg, eng, rd, queue, wr, dest, sys >>

\* if sync: self.sync(), which calls os.fsync if the destination supports it.
FinalSync ==
    /\ pc = "sync"
    /\ \E fail \in BOOLEAN :
         IF ~DestSupportsFsync
         THEN ~fail /\ UNCHANGED log /\ CopyEnds("ok")
         ELSE IF fail THEN CopyEnds("Error:sync") /\ UNCHANGED log
         ELSE log' = LogOp("sync", 0, 0) /\ CopyEnds("ok")
    /\ UNCHANGED << cfg, eng, rd, queue, wr, dest, sys >>

\* A variant of _restore_bdev_settings that swallows a failed write-back
\* (used to test that C8 depends on the restore step raising).
RestoreSwallowsFailure(failed) == exc

\* What the caller of BmapBdevCopy.copy gets when _restore_bdev_settings,
\* run by its 'finally', has ended: the exception of a failed write-back,
\* else the outcome of BmapCopy.copy.
RestoreOutcome(failed) == IF failed THEN "Error:restore" ELSE exc

\* The first half of _restore_bdev_settings: the recorded scheduler is
\* written back to its pseudo-file (open, write, close); an IOError is
\* raised as Error and the ratio is left alone.
RestoreScheduler ==
    /\ pc = "restore"
    /\ \E fail \in BOOLEAN :
         LET recorded == eng.old_sched # ""
             raised == recorded /\ fail
         IN /\ (fail => recorded)
            /\ sys' = [sys EXCEPT
                         !.sched = IF recorded /\ ~raised THEN eng.old_sched
                                   ELSE @,
                         !.restored = raised,
                         !.restore_failed = raised,
                         !.attempted = IF recorded THEN @ \cup {"scheduler"}
                                       ELSE @]
            /\ pc' = IF raised THEN "done" ELSE "restore_ratio"
            /\ result' = IF raised THEN RestoreOutcome(TRUE) ELSE result
    /\ UNCHANGED << cfg, eng, rd, queue, wr, dest, log, exc >>

\* The second half: the recorded max_ratio is written back to its
\* pseudo-file, and _restore_bdev_settings ends.
RestoreRatio ==
    /\ pc = "restore_ratio"
    /\ \E fail \in BOOLEAN :
         LET recorded == eng.old_ratio # NoneVal
             raised == recorded /\ fail
         IN /\ (fail => recorded)
            /\ sys' = [sys EXCEPT
                         !.ratio = IF recorded /\ ~raised THEN eng.old_ratio
                                   ELSE @,
                         !.restored = TRUE,
                         !.restore_failed = raised,
                         !.attempted = IF recorded THEN @ \cup {"max_ratio"}
                                       ELSE @]
            /\ pc' = "done"
            /\ result' = RestoreOutcome(raised)
    /\ UNCHANGED << cfg, eng, rd, queue, wr, dest, log, exc >>

\* ------------------------------------------------ copy() of BmapCopy.py
\* The end of _copy_data (the range's checksum test) and the next step of
\* _get_block_ranges; _copy_data then seeks both files to the range's start:
\* the image first, then the destination, whose IOError nothing catches.
V1Range ==
    /\ cfg.engine = "v1"
    /\ pc = "v1_range"
    /\ LET ranges == cfg.bmap.ranges IN
       IF rd.idx > 0 /\ cfg.verify /\ rd.sha1 # NoSha /\ rd.hash # rd.sha1
       THEN CopyEnds("Error:checksum") /\ UNCHANGED << rd, wr >>
       ELSE IF rd.idx = Len(ranges)
       THEN pc' = "v1_final" /\ UNCHANGED << rd, wr, exc, result >>
       ELSE LET r == RangeOfV1(ranges[rd.idx + 1], rd.last) IN
            IF r.err = "badrange"
            THEN CopyEnds("Error:badrange") /\ UNCHANGED << rd, wr >>
            ELSE IF r.err = "unbound"
            THEN CopyEnds("UnboundLocalError") /\ UNCHANGED << rd, wr >>
            ELSE /\ rd' = [rd EXCEPT !.idx = rd.idx + 1,
                                     !.first = r.first, !.last = r.last,
                                     !.sha1 = r.sha1,
                                     !.hash = IF cfg.verify /\ r.sha1 # NoSha
                                              THEN HashInit ELSE NoneVal,
                                     !.pos = r.first * eng.block_size,
                                     !.batches = BatchesOf(r.first, r.last,
                                                           eng.batch_blocks)]
                 /\ IF SeekFails(r.first * eng.block_size)
                    THEN CopyEnds("IOError:seek") /\ UNCHANGED wr
                    ELSE /\ wr' = [wr EXCEPT !.pos = r.first * eng.block_size]
                         /\ pc' = "v1_batch"
                         /\ UNCHANGED << exc, result >>
    /\ UNCHANGED << cfg, eng, queue, dest, log, sys >>

\* One turn of the loop of _copy_data: read, hash, _fsync_dest, write.
\* f is what fails in it.
CopyBatchV1(b, f) ==
    LET bs == eng.block_size
        chunk == ReadAt(cfg.image, rd.pos, b.length * bs)
        got == f # "read" /\ chunk # << >>
        due == got /\ SyncDue(eng.watermark, wr.blocks_written, wr.fsync_last)
        log1 == IF due /\ f # "flush" THEN LogOp("flush", 0, 0) ELSE log
        log2 == IF due /\ f \notin {"flush", "fsync"}
                THEN Append(log1, [op |-> "sync", off |-> 0, len |-> 0])
                ELSE log1
        written == got /\ f = "none"
    IN /\ (f \in {"flush", "fsync"} => due)
       /\ (f = "write" => got)
       /\ (got /\ BeyondDevice(wr.pos, Len(chunk)) => f # "none")
       /\ log' = IF written
                 THEN Append(log2, [op |-> "write", off |-> wr.pos,
                                    len |-> Len(chunk)])
                 ELSE log2
       /\ \E k \in (IF f = "write" THEN FailedWriteFits(wr.pos, chunk)
                     ELSE {0}) :
            /\ dest' = IF written THEN WriteAt(dest, wr.pos, chunk)
                       ELSE AfterFailedWrite(wr.pos, chunk, k)
            /\ wr' = [wr EXCEPT
                        !.fsync_last = IF due THEN wr.blocks_written ELSE @,
                        !.blocks_written = IF written THEN @ + b.length ELSE @,
                        !.pos = IF written THEN @ + Len(chunk) ELSE @ + k]
       /\ rd' = IF got
                THEN [rd EXCEPT !.hash = IF cfg.verify /\ rd.sha1 # NoSha
                                         THEN HashUpdate(rd.hash, chunk) ELSE @,
                                !.pos = rd.pos + Len(chunk),
                                !.batches = IF written THEN Tail(@) ELSE @]
                ELSE rd
       /\ IF f = "read" THEN CopyEnds("Error:read")
          ELSE IF chunk = << >> THEN CopyEnds("Error:short")
          ELSE IF f = "flush" THEN CopyEnds("Error:flush")
          ELSE IF f = "fsync" THEN CopyEnds("Error:sync")
          ELSE IF f = "write" THEN CopyEnds("Error:write")
          ELSE /\ pc' = IF Tail(rd.batches) = << >> THEN "v1_range" ELSE pc
               /\ UNCHANGED << exc, result >>

V1Batch ==
    /\ cfg.engine = "v1"
    /\ pc = "v1_batch"
    /\ \E f \in {"none", "read", "flush", "fsync", "write"} :
         CopyBatchV1(Head(rd.batches), f)
    /\ UNCHANGED << cfg, eng, queue, sys >>

\* The end of copy(): the blocks-written sanity check, then sync().
V1Final ==
    /\ cfg.engine = "v1"
    /\ pc = "v1_final"
    /\ IF wr.blocks_written # eng.mapped_cnt
       THEN CopyEnds("Error:inconsistent") /\ UNCHANGED log
       ELSE IF ~cfg.sync THEN CopyEnds("ok") /\ UNCHANGED log
       ELSE \E f \in {"none", "flush", "fsync"} :
              /\ log' = IF f = "flush" THEN log
                        ELSE IF f = "fsync" THEN LogOp("flush", 0, 0)
                        ELSE Append(LogOp("flush", 0, 0),
                                    [op |-> "sync", off |-> 0, len |-> 0])
              /\ CopyEnds(IF f = "flush" THEN "Error:flush"
                          ELSE IF f = "fsync" THEN "Error:sync" ELSE "ok")
    /\ UNCHANGED << cfg, eng, rd, queue, wr, dest, sys >>

\* sync() of BmapCopy.py: flush, then fsync; f is what fails in it.
SyncV1(f) ==
    /\ log' = IF f = "flush" THEN log
              ELSE IF f = "fsync" THEN LogOp("flush", 0, 0)
              ELSE Append(LogOp("flush", 0, 0),
                          [op |-> "sync", off |-> 0, len |-> 0])
    /\ CopyEnds(IF f = "flush" THEN "Error:flush"
                ELSE IF f = "fsync" THEN "Error:sync" ELSE "ok")

\* One turn of the loop of _copy_entire_image: read _batch_bytes, write.
\* When the write fails the chunk has been read: the image is past it.
V1Entire ==
    /\ cfg.engine = "v1"
    /\ pc = "v1_entire"
    /\ \E f \in {"none", "read", "write"} :
         LET chunk == ReadAt(cfg.image, rd.pos, BatchBytes) IN
         IF f = "read"
         THEN CopyEnds("Error:read") /\ UNCHANGED << rd, wr, dest, log >>
         ELSE IF chunk = << >>
         THEN /\ f = "none"
              /\ pc' = "v1_entire_end"
              /\ UNCHANGED << rd, wr, dest, log, exc, result >>
         ELSE IF f = "write"
         THEN /\ CopyEnds("Error:write")
              /\ rd' = [rd EXCEPT !.pos = @ + Len(chunk)]
              /\ \E k \in FailedWriteFits(wr.pos, chunk) :
                   /\ dest' = AfterFailedWrite(wr.pos, chunk, k)
                   /\ wr' = [wr EXCEPT !.pos = @ + k]
              /\ UNCHANGED log
         ELSE /\ ~BeyondDevice(wr.pos, Len(chunk))
              /\ dest' = WriteAt(dest, wr.pos, chunk)
              /\ log' = LogOp("write", wr.pos, Len(chunk))
              /\ wr' = [wr EXCEPT !.pos = @ + Len(chunk),
                                  !.bytes_written = @ + Len(chunk)]
              /\ rd' = [rd EXCEPT !.pos = @ + Len(chunk)]
              /\ UNCHANGED << pc, exc, result >>
    /\ UNCHANGED << cfg, eng, queue, sys >>

\* The end of _copy_entire_image: the sizes of a compressed image, sync().
V1EntireEnd ==
    /\ cfg.engine = "v1"
    /\ pc = "v1_entire_end"
    /\ eng' = IF cfg.compressed THEN InitializeSizes(eng, wr.bytes_written)
              ELSE eng
    /\ IF ~cfg.sync THEN CopyEnds("ok") /\ UNCHANGED log
       ELSE \E f \in {"none", "flush", "fsync"} : SyncV1(f)
    /\ UNCHANGED << cfg, rd, queue, wr, dest, sys >>

\* The caller holds an engine and is not inside copy(): the constructor has
\* returned and copy() was not called yet, or copy() has returned or raised.
OutsideCopy == pc = "ready" \/ (pc = "done" /\ exc # "none")

\* What can go wrong in sync(): the flush (BmapCopy.py only) or os.fsync
\* (which BmapCopy2_6.py calls only if the destination supports it).
SyncFaults ==
    IF cfg.engine = "v1" THEN {"none", "flush", "fsync"}
    ELSE IF DestSupportsFsync THEN {"none", "fsync"}
    ELSE {"none"}

\* What a call of sync() in which f fails does to the destination.
SyncOps(f) ==
    IF cfg.engine = "v1"
    THEN IF f = "flush" THEN << >>
         ELSE IF f = "fsync" THEN << [op |-> "flush", off |-> 0, len |-> 0] >>
         ELSE << [op |-> "flush", off |-> 0, len |-> 0],
                 [op |-> "sync", off |-> 0, len |-> 0] >>
    ELSE IF DestSupportsFsync /\ f = "none"
         THEN << [op |-> "sync", off |-> 0, len |-> 0] >>
         ELSE << >>

\* What sync() raises when f fails in it.
SyncRaises(f) ==
    IF f = "flush" THEN "Error:flush"
    ELSE IF f = "fsync" THEN "Error:sync" ELSE "none"

\* A variant of sync() that also notes the blocks written as synchronized
\* (used to test that C19 depends on sync() leaving the counters alone).
SyncCallNotesBlocks ==
    /\ OutsideCopy
    /\ IF pc = "ready" THEN sys.presyncs < MaxPreSyncCalls
       ELSE sys.syncs < MaxSyncCalls
    /\ \E f \in SyncFaults :
         /\ log' = log \o SyncOps(f)
         /\ sys' = [sys EXCEPT
                      !.presyncs = IF pc = "ready" /\ f = "none" THEN @ + 1 ELSE @,
                      !.syncs = IF pc = "done" /\ f = "none" THEN @ + 1 ELSE @,
                      !.sync_exc = SyncRaises(f),
                      !.sync_ops = @ \cup ((Len(log) + 1)..Len(log'))]
         /\ pc' = IF f = "none" THEN pc ELSE "stopped"
    /\ wr' = [wr EXCEPT !.fsync_last = wr.blocks_written]
    /\ UNCHANGED << cfg, eng, rd, queue, dest, exc, result >>

\* sync() called by the user on the constructed object, before copy() or
\* after it has returned or raised: BmapCopy2_6.py calls os.fsync if the
\* destination supports it, BmapCopy.py flushes and calls os.fsync; a
\* failure of either makes sync() raise Error, with which the caller's
\* run ends.
SyncCall ==
    /\ OutsideCopy
    /\ IF pc = "ready" THEN sys.presyncs < MaxPreSyncCalls
       ELSE sys.syncs < MaxSyncCalls
    /\ \E f \in SyncFaults :
         /\ log' = log \o SyncOps(f)
         /\ sys' = [sys EXCEPT
                      !.presyncs = IF pc = "ready" /\ f = "none" THEN @ + 1 ELSE @,
                      !.syncs = IF pc = "done" /\ f = "none" THEN @ + 1 ELSE @,
                      !.sync_exc = SyncRaises(f),
                      !.sync_ops = @ \cup ((Len(log) + 1)..Len(log'))]
         /\ pc' = IF f = "none" THEN pc ELSE "stopped"
    /\ UNCHANGED << cfg, eng, rd, queue, wr, dest, exc, result >>

\* ------------------------------------------------------- specification
ReaderStep == ReaderAdvance \/ ReaderRead \/ ReaderPut

CallerStep ==
    \/ Construct
    \/ TuneBlockDevice
    \/ StartCopy
    \/ WriterGet
    \/ WriterBody
    \/ WriterWrite
    \/ FinalCheck
    \/ Truncate
    \/ Flush
    \/ FinalSync
    \/ RestoreScheduler
    \/ RestoreRatio
    \/ V1Range
    \/ V1Batch
    \/ V1Final
    \/ V1Entire
    \/ V1EntireEnd
    \/ SyncCall

Next == ReaderStep \/ CallerStep

Spec == Init /\ [][Next]_vars

\* Both threads are scheduled: neither waits forever while it can run.
FairSpec == Spec /\ WF_vars(ReaderStep) /\ WF_vars(CallerStep)

\* ---------------------------------------------------------------- claims
\* The caller's run ended before it called copy(): a sync() call raised.
NeverCopied == pc = "stopped" /\ result = "running"

\* C1: every copy() run eventually returns or raises; in particular an error
\* met by the reader task (read failure, invalid range, checksum mismatch)
\* is eventually raised to the caller, the writer does not stay blocked on
\* the channel.  Stated for scheduled threads (FairSpec), and of the runs in
\* which copy() is called.
C1_CopyEventuallyEnds == <>(result # "running" \/ NeverCopied)

\* The ranges of the run's block map, as written in the document.
MapTexts == [i \in 1..Len(cfg.bmap.ranges) |-> cfg.bmap.ranges[i].nums]
MapSum == SumRanges(MapTexts)
BlockMapped(b) ==
    \E i \in 1..Len(MapTexts) : TextFirst(MapTexts[i]) <= b /\ b <= TextLast(MapTexts[i])

\* C2: copy(verify=True) never completes successfully when a range that
\* declares a checksum was read with another digest; copy(verify=False)
\* never fails because of a declared checksum.  (The ranges before the last
\* one the engine took up were compared when it moved on; the formula looks
\* at the last one.)
C2_VerifyDetectsMismatch ==
    /\ (result = "ok" /\ cfg.verify)
          => ~(rd.idx > 0 /\ rd.sha1 # NoSha /\ rd.hash # rd.sha1)
    /\ ~cfg.verify => (result # "Error:checksum" /\ rd.err # "checksum")

\* The errors that stop a copy for another reason than the block count.
OtherErrors ==
    {"Error:read", "Error:short", "Error:write", "Error:sync", "Error:flush",
     "Error:truncate", "Error:restore", "Error:checksum", "Error:badrange",
     "Error:capacity", "Error:metadata", "Error:version", "Error:imagesize",
     "IOError:tune", "IOError:seek"}

\* C3: with a block map whose ranges do not sum to MappedBlocksCount, copy()
\* does not succeed, and what it raises (when nothing else stops the copy)
\* is the inconsistent-bmap error of the finalization, not an assertion or a
\* crash.
C3_InconsistentMapFailsAtFinalization ==
    (result # "running" /\ cfg.has_bmap /\ MapSum # cfg.bmap.mapped_cnt
       /\ result \notin OtherErrors)
        => result = "Error:inconsistent"

\* Every byte the image has in a mapped block is in the destination.
MappedContentCopied ==
    \A i \in 1..Len(MapTexts) :
        \A k \in (TextFirst(MapTexts[i]) * cfg.bmap.block_size + 1)
                  ..Min((TextLast(MapTexts[i]) + 1) * cfg.bmap.block_size,
                        Len(cfg.image)) :
            k <= Len(dest) /\ dest[k] = cfg.image[k]

\* C4: after a successful copy with a block map to a regular file the
\* destination has the image's size, whether or not the last block is
\* mapped, and every mapped block has the source's content.
C4_DestSizedAndMappedCopied ==
    (result = "ok" /\ cfg.has_bmap /\ DestIsRegfile)
        => (Len(dest) = cfg.bmap.image_size /\ MappedContentCopied)

\* C5: every write of a block-map-driven copy covers only blocks that lie in
\* some range of the block map.
C5_WritesOnlyMappedBlocks ==
    \A i \in 1..Len(log) :
        (cfg.has_bmap /\ log[i].op = "write") =>
            \A b \in (log[i].off \div cfg.bmap.block_size)
                      ..((log[i].off + log[i].len - 1) \div cfg.bmap.block_size) :
                BlockMapped(b)

\* A copy that succeeded with two writes and a block map with a hole.
C5_Witness ==
    /\ result = "ok"
    /\ cfg.has_bmap
    /\ Cardinality({i \in 1..Len(log) : log[i].op = "write"}) >= 2
    /\ \E b \in 0..(NBlocks - 1) : ~BlockMapped(b)

\* C6: for a block-device copy, whenever tuning was started the restore step
\* has run when copy() reports completion or failure.
C6_RestoreBeforeReport ==
    (cfg.bdev /\ sys.tuned /\ result # "running") => sys.restored

\* C7: after a block-device copy attempt has ended, each tunable holds the
\* value it held before the attempt.
C7_TunablesAsBefore ==
    (cfg.bdev /\ sys.tuned /\ result # "running")
        => (sys.sched = sys.sched0 /\ sys.ratio = sys.ratio0)

\* C8: a write-back that fails in the restore step makes copy() raise, also
\* when the copy of the data succeeded.
C8_RestoreFailureRaised == sys.restore_failed => result = "Error:restore"

\* The data was copied and the restore step failed.
C8_Witness == sys.restore_failed /\ exc = "ok" /\ result = "Error:restore"

\* C9: a failure to open, read or write a tuning pseudo-file never makes
\* copy() fail: the data copy still runs.
C9_TuningFailureHarmless ==
    (sys.tuned /\ result # "running")
        => (result # "IOError:tune" /\ wr.bytes_written # NoneVal)

\* What the run of copy() did to the destination: the log, each operation
\* with its place, without what the caller's own calls of sync() did before
\* copy() and after it.
RunLog == SelectSeq([i \in 1..Len(log) |-> [at |-> i, o |-> log[i]]],
                    LAMBDA e : e.at \notin sys.sync_ops)

\* C10: once a copy has failed nothing more is done to the destination by
\* that run: no write, truncate, flush or sync, and what was written stays.
C10_NothingAfterFailure ==
    [][(exc \notin {"none", "ok"}) => (RunLog' = RunLog /\ dest' = dest)]_vars

\* A copy that failed after it had written.
C10_Witness ==
    /\ exc \in {"Error:write", "Error:inconsistent", "Error:sync"}
    /\ \E i \in 1..Len(log) : log[i].op = "write"
    /\ pc = "done"

\* C11: when copy() fails, the error the caller gets is the first fatal error
\* of the run (the one that ended the data copy): a later error of the same
\* run, such as a failure of the restore step, does not replace it.
C11_FirstErrorRaised ==
    (result # "running" /\ exc \notin {"none", "ok"}) => result = exc

\* self.image_size (bmap_image_size in BmapCopy.py) when the constructor of
\* the base class has returned or raised: NoneVal when it was never set.
\* _parse_bmap of BmapCopy2_6.py sets it from the ImageSize element (whose
\* absence raises before the assignment), _parse_bmap of BmapCopy.py from
\* BlocksCount * BlockSize after the version test; _set_image_size sets the
\* argument or, when it conflicts, leaves what was set.
KnownImageSize ==
    LET p == ParsedOrDefaults IN
    IF p.err \in {"AttributeError", "Error:version"} THEN NoneVal
    ELSE IF p.err = "none" /\ cfg.engine = "v26" /\ Truthy(cfg.image_size)
    THEN SetImageSize(EngineOf(p, cfg.engine, cfg.bdev),
                      cfg.image_size).eng.image_size
    ELSE p.image_size

\* The image size the run's inputs state: the image_size argument or the
\* document's ImageSize (BlocksCount * BlockSize without one); without a
\* bmap the argument or, for BmapCopy.py, the size of a plain image file.
\* NoneVal when they state none.
StatedImageSize ==
    IF cfg.engine = "v26" /\ Truthy(cfg.image_size) THEN cfg.image_size
    ELSE IF cfg.has_bmap
    THEN IF cfg.bmap.has_image_size THEN cfg.bmap.image_size
         ELSE cfg.bmap.blocks_cnt * cfg.bmap.block_size
    ELSE IF cfg.engine = "v1" /\ ~cfg.compressed THEN Len(cfg.image)
    ELSE NoneVal

\* The errors of the constructor that come before the capacity test: those
\* of _parse_bmap (the bmap's own checksum included) and of _set_image_size.
EarlierConstructionErrors ==
    {"Error:version", "Error:metadata", "Error:bmapchecksum",
     "Error:imagesize", "AttributeError", "ZeroDivisionError"}

\* C12: the constructor of a block-device copier raises the capacity error
\* when the known image size exceeds the device's capacity, and only then;
\* when it does, nothing was written to the device and no tunable changed.
C12_CapacityChecked ==
    /\ (pc # "new" /\ cfg.bdev /\ Truthy(StatedImageSize)
          /\ Len(cfg.dest0) < StatedImageSize
          /\ result \notin EarlierConstructionErrors)
        => result = "Error:capacity"
    /\ result = "Error:capacity"
        => /\ cfg.bdev /\ Truthy(StatedImageSize)
           /\ Len(cfg.dest0) < StatedImageSize
           /\ log = << >> /\ dest = cfg.dest0 /\ ~sys.tuned
           /\ sys.sched = sys.sched0 /\ sys.ratio = sys.ratio0

\* C13: a block map whose major version exceeds the supported one is
\* rejected by the constructor with the unsupported-version error, before
\* anything is read from the image or done to the destination; a block map
\* of a supported major version is never rejected for its version.
C13_UnsupportedVersionRejected ==
    /\ (pc # "new" /\ cfg.has_bmap /\ cfg.bmap.major > 1)
        => (result = "Error:version" /\ dest = cfg.dest0 /\ log = << >>
            /\ rd.pos = 0)
    /\ (cfg.has_bmap /\ cfg.bmap.major <= 1) => result # "Error:version"

\* The constructor of BmapCopy2_6.py is given an image_size argument next to
\* a block map that was parsed.
ArgAfterBmap ==
    /\ pc # "new"
    /\ cfg.engine = "v26" /\ cfg.has_bmap /\ Truthy(cfg.image_size)
    /\ result \notin {"AttributeError", "ZeroDivisionError", "Error:metadata"}

\* C14: image_size is set once.  Setting it to another value fails with an
\* error and leaves image_size and the fields derived from it as they were;
\* setting it to the value it has succeeds; once set it never changes
\* (constructor argument, block map value, end-of-copy finalization).
C14_ImageSizeSetOnce ==
    /\ [](/\ (ArgAfterBmap /\ cfg.image_size # cfg.bmap.image_size)
              => /\ result = "Error:imagesize"
                 /\ eng.image_size = cfg.bmap.image_size
                 /\ eng.blocks_cnt = cfg.bmap.blocks_cnt
                 /\ eng.mapped_cnt = cfg.bmap.mapped_cnt
                 /\ eng.mapped_size = cfg.bmap.mapped_cnt * cfg.bmap.block_size
          /\ (ArgAfterBmap /\ cfg.image_size = cfg.bmap.image_size)
              => /\ result # "Error:imagesize"
                 /\ eng.image_size = cfg.bmap.image_size)
    /\ [][eng.image_size # NoneVal => eng'.image_size = eng.image_size]_vars

\* A conflicting image_size argument was refused.
C14_Witness ==
    /\ result = "Error:imagesize"
    /\ cfg.image_size # cfg.bmap.image_size
    /\ eng.image_size = cfg.bmap.image_size

\* A copy without a block map of an image whose size the constructor does
\* not know.
NoBmapUnknownSize == ~cfg.has_bmap /\ KnownImageSize = NoneVal

\* ceil(size / block_size)
BlocksFor(size, block_size) == (size + block_size - 1) \div block_size

\* What a copy that fails the blocks-written check ends with: the
\* inconsistent-bmap error, or, without a bmap, the AttributeError of its
\* message; the assertion of the progress indicator on the same count; the
\* error of a second image size.
CheckFailures ==
    {"Error:inconsistent", "AttributeError", "AssertionError",
     "Error:imagesize"}

\* C15: without a block map and with an image size unknown at construction,
\* copy() ends once the source is exhausted (unless the reader thread has
\* died, see C1); the finalization that follows the end of the stream sets
\* image_size to the number of bytes read, which is the source's length,
\* and passes the blocks-written check, whatever the source's length: the
\* copy never ends with a failure of that check; when it succeeds the
\* destination holds the source's bytes at their own offsets.
C15_UnknownSizeCopy ==
    /\ [](NoBmapUnknownSize
            => /\ result \notin CheckFailures
               /\ exc \notin CheckFailures
               /\ exc = "ok"
                    => /\ eng.image_size = Len(cfg.image)
                       /\ dest = IF cfg.bdev
                                 THEN WriteAt(cfg.dest0, 0, cfg.image)
                                 ELSE cfg.image)
    /\ [][(NoBmapUnknownSize /\ pc = "final_check" /\ pc' # pc)
            => /\ pc' \in {"truncate", "flush"}
               /\ exc' = "none"
               /\ wr.bytes_written = Len(cfg.image)
               /\ eng'.image_size = wr.bytes_written
               /\ eng'.blocks_cnt = BlocksFor(Len(cfg.image), eng.block_size)
               /\ wr.blocks_written = eng'.mapped_cnt]_vars
    /\ (NoBmapUnknownSize
          => <>(result # "running" \/ rd.pc = "crashed" \/ NeverCopied))

\* BmapCopy2_6.py has copied an image of a batch and one byte whose size it
\* did not know: the last block is counted though the image ends inside it.
C15_Witness ==
    /\ NoBmapUnknownSize
    /\ cfg.engine = "v26"
    /\ Len(cfg.image) = BatchBytes + 1
    /\ result = "ok"
    /\ dest = cfg.image
    /\ eng.image_size = Len(cfg.image)
    /\ wr.blocks_written = eng.mapped_cnt
    /\ wr.blocks_written = BatchBlocksScaled + 1

\* The constructor raised: copy() was never called.
ConstructionFailed == pc = "done" /\ exc = "none"

\* The constructor returned an engine.
Constructed == pc # "new" /\ ~ConstructionFailed

\* C16: whenever image_size and blocks_cnt are both set, blocks_cnt is
\* ceil(image_size / block_size); a block map whose BlocksCount is not
\* ceil(ImageSize / BlockSize) is rejected by the constructor with the
\* inconsistent-metadata error (unless its version was rejected first).
C16_BlocksCountIsCeil ==
    /\ (eng.image_size # NoneVal /\ eng.blocks_cnt # NoneVal)
        => eng.blocks_cnt = BlocksFor(eng.image_size, eng.block_size)
    /\ (pc # "new" /\ cfg.has_bmap /\ cfg.bmap.has_image_size
          /\ cfg.bmap.blocks_cnt
               # BlocksFor(cfg.bmap.image_size, cfg.bmap.block_size)
          /\ result # "Error:version")
        => result = "Error:metadata"

\* C17: after a successful construction from a block map,
\* mapped_cnt <= blocks_cnt, in that state and in every later one.
C17_MappedWithinBlocks ==
    (Constructed /\ cfg.has_bmap) => eng.mapped_cnt <= eng.blocks_cnt

\* C18: whenever mapped_size and mapped_cnt are both set, mapped_size is
\* mapped_cnt * block_size, with a block map and with the defaults made up
\* without one, for every image size.
C18_MappedSizeIsCountTimesBlock ==
    (eng.mapped_size # NoneVal /\ eng.mapped_cnt # NoneVal)
        => eng.mapped_size = eng.mapped_cnt * eng.block_size

\* This step is a call of sync() made after a completed copy.
SyncAfterCopy ==
    /\ pc = "done" /\ result = "ok"
    /\ sys'.syncs # sys.syncs \/ pc' = "stopped"

\* C19 as stated: a call of sync() after a completed copy raises nothing and
\* changes neither the destination's content or size nor the engine's
\* counters and metadata, however many calls were made before it.
C19_SyncIdempotent ==
    [][SyncAfterCopy
         => /\ sys'.sync_exc = "none" /\ pc' = pc
            /\ result' = "ok" /\ exc' = exc
            /\ dest' = dest /\ eng' = eng /\ wr' = wr]_vars

\* C19 as amended: a call of sync() after a completed copy changes neither
\* the destination's content or size nor the engine's counters and metadata,
\* however many calls were made before it; it raises nothing unless the
\* flush or the os.fsync of the destination that it performs fails, and
\* then what it raises is the flush or the synchronization error; a call
\* that raises nothing has done the whole of what sync() does.
C19_SyncChangesNoData ==
    [][SyncAfterCopy
         => /\ result' = "ok" /\ exc' = exc
            /\ dest' = dest /\ eng' = eng /\ wr' = wr
            /\ sys'.sync_exc \in {"none", "Error:sync", "Error:flush"}
            /\ sys'.sync_exc = "Error:flush" => cfg.engine = "v1" /\ log' = log
            /\ sys'.sync_exc = "Error:sync" =>
                  /\ DestSupportsFsync \/ cfg.engine = "v1"
                  /\ \A i \in (Len(log) + 1)..Len(log') : log'[i].op = "flush"
            /\ sys'.sync_exc = "none" =>
                  /\ pc' = pc
                  /\ (DestSupportsFsync \/ cfg.engine = "v1") =>
                        log'[Len(log')].op = "sync" /\ Len(log') > Len(log)]_vars

\* After a copy that wrote something sync() was called and returned, then
\* called again with an os.fsync that failed.
C19_Witness ==
    /\ sys.syncs >= 1
    /\ sys.sync_exc = "Error:sync"
    /\ result = "ok"
    /\ \E i \in 1..Len(log) : log[i].op = "write"

\* C20: parsing a block map with an ImageSize element makes its value the
\* image_size; parsing one without it succeeds, with
\* image_size = BlocksCount * BlockSize.
C20_ImageSizeFromBmap ==
    /\ (Constructed /\ cfg.has_bmap /\ cfg.bmap.has_image_size)
        => eng.image_size = cfg.bmap.image_size
    /\ (pc # "new" /\ cfg.has_bmap /\ ~cfg.bmap.has_image_size)
        => /\ result # "AttributeError"
           /\ Constructed
                => eng.image_size = cfg.bmap.blocks_cnt * cfg.bmap.block_size

\* ------------------------------------------------------------------ C21
\* The positions of the Error messages among what the reader has put.
ErrorPuts == { i \in 1..Len(rd.puts) : rd.puts[i].type = "error" }

\* C21: an exception raised inside the reader (a read IOError, an invalid
\* range, a range-checksum mismatch) does not escape in the reader's own
\* context: the reader puts exactly one Error message, which carries the
\* exception, and nothing after it.
C21_ReaderErrorBecomesMessage ==
    rd.err # "none" =>
        /\ rd.pc # "crashed"
        /\ Cardinality(ErrorPuts) = 1
        /\ rd.puts # << >>
        /\ rd.puts[Len(rd.puts)].type = "error"

\* ------------------------------------------------------------------ C22
\* The positions of the terminating messages (EndOfStream, Error) among what
\* the reader has put.
TerminatorPuts ==
    { i \in 1..Len(rd.puts) : rd.puts[i].type \in {"end", "error"} }

\* The reader has run to its end: it returned, or an exception ended it.
ReaderEnded == rd.pc \in {"done", "crashed"}

\* C22: the reader puts nothing after a terminating message, never both an
\* EndOfStream and an Error, at most one Error; a reader that has run to its
\* end has put exactly one terminating message, an EndOfStream when it met
\* no error.
C22_OneTerminatingMessage ==
    /\ \A i \in TerminatorPuts : i = Len(rd.puts)
    /\ Cardinality(ErrorPuts) <= 1
    /\ ReaderEnded =>
          /\ Cardinality(TerminatorPuts) = 1
          /\ (rd.err = "none" => rd.puts[Len(rd.puts)].type = "end")

\* ------------------------------------------------------------------ C23
\* The capacity the claim states for the channel.
StatedCapacity == IF cfg.bdev THEN QueueLenBdev ELSE QueueLenPlain

\* The reader thread is running: started and not yet ended.
ReaderRunning == cfg.engine = "v26" /\ rd.pc \in {"next", "read", "put"}

\* C23: the queue never holds more messages than its capacity (2 for a plain
\* destination, 6 for a block device); the running reader cannot take a step
\* exactly when it is about to put into a full queue, and the writer loop
\* exactly when the queue it gets from is empty.
C23_QueueBoundedAndBlocking ==
    /\ Len(queue) <= StatedCapacity
    /\ ReaderRunning =>
          (~ENABLED ReaderStep <=>
              (rd.pc = "put" /\ Len(queue) = StatedCapacity))
    /\ (cfg.engine = "v26" /\ pc = "loop") =>
          (~ENABLED WriterGet <=> queue = << >>)

\* A reader of a block device copy waits to put into the full queue.
C23_Witness ==
    /\ cfg.bdev
    /\ rd.pc = "put"
    /\ Len(queue) = QueueLenBdev
    /\ ~ENABLED ReaderStep

\* ------------------------------------------------------------------ C24
\* The bytes of the batches a queue holds.
RECURSIVE QueueBytes(_)
QueueBytes(q) ==
    IF q = << >> THEN 0 ELSE Len(Head(q).buf) + QueueBytes(Tail(q))

\* The bytes of the batch the reader has read and not yet put.
HeldByReader == IF rd.pc = "put" THEN Len(rd.msg.buf) ELSE 0

\* The bytes of the batch the writer has taken and not yet written.
HeldByWriter ==
    IF pc \in {"batch", "write"} /\ wr.batch.type = "range"
    THEN Len(wr.batch.buf) ELSE 0

\* The batch data read from the image and not yet written to the destination.
InFlight == HeldByReader + QueueBytes(queue) + HeldByWriter

\* The bytes of one batch: _batch_blocks blocks.
BatchSize == eng.batch_blocks * eng.block_size

\* The reader thread has been started.
ReaderStarted == cfg.engine = "v26" /\ rd.pc # "idle"

\* C24 as stated: the batch data read from the image and not yet written to
\* the destination is at most channel capacity x batch size.
C24_InFlightAtMostCapacity ==
    ReaderStarted => InFlight <= StatedCapacity * BatchSize

\* C24 as amended: no batch is larger than the batch size; the reader holds
\* at most one batch beside the at most capacity batches of the channel, and
\* the writer at most the one batch it has taken from the channel: in all at
\* most (capacity + 2) x batch size.
C24_InFlightBounded ==
    ReaderStarted =>
        /\ HeldByReader <= BatchSize
        /\ \A i \in 1..Len(queue) : Len(queue[i].buf) <= BatchSize
        /\ HeldByWriter <= BatchSize
        /\ InFlight <= (StatedCapacity + 2) * BatchSize

\* The channel is full of whole batches, the reader holds one more and the
\* writer another.
C24_Witness ==
    /\ ReaderStarted
    /\ HeldByReader = BatchSize
    /\ HeldByWriter = BatchSize
    /\ QueueBytes(queue) = StatedCapacity * BatchSize

\* ------------------------------------------------------------------ C25
\* The batches the reader has put, and the writes of the destination, in order.
RangePuts == SelectSeq(rd.puts, LAMBDA m : m.type = "range")
DestWrites == SelectSeq(log, LAMBDA o : o.op = "write")
QueuedRanges == SelectSeq(queue, LAMBDA m : m.type = "range")

\* The batches of the block map: range after range in document order, each
\* range split in increasing block order.
RECURSIVE BatchesFrom(_)
BatchesFrom(i) ==
    IF i > Len(cfg.bmap.ranges) THEN << >>
    ELSE LET r == RangeOf26(cfg.bmap.ranges[i]) IN
         IF r.err # "none" THEN << >>
         ELSE BatchesOf(r.first, r.last, eng.batch_blocks) \o BatchesFrom(i + 1)

\* C25: the writer writes the batches in exactly the order the reader read
\* them, none dropped, duplicated or reordered: the writes are, one for one,
\* the first batches the reader has put, all those the writer has got, and
\* all of them when the copy succeeds; with a block map the batches read are
\* the first batches of the map, range after range in document order and in
\* increasing block order within a range.
C25_WrittenInReadOrder ==
    ReaderStarted =>
        /\ Len(DestWrites) <= Len(RangePuts)
        /\ \A i \in 1..Len(DestWrites) :
              /\ DestWrites[i].off = RangePuts[i].start * eng.block_size
              /\ DestWrites[i].len = RangePuts[i].len
        /\ pc \in {"loop", "batch", "write", "final_check"} =>
              Len(DestWrites) + Len(QueuedRanges)
                 + (IF HeldByWriter > 0 THEN 1 ELSE 0) = Len(RangePuts)
        /\ exc = "ok" => Len(DestWrites) = Len(RangePuts)
        /\ cfg.has_bmap =>
              /\ Len(RangePuts) <= Len(BatchesFrom(1))
              /\ \A i \in 1..Len(RangePuts) :
                    /\ RangePuts[i].start = BatchesFrom(1)[i].start
                    /\ RangePuts[i].end <= BatchesFrom(1)[i].end
                    /\ (RangePuts[i].len = BatchesFrom(1)[i].length * eng.block_size
                          => RangePuts[i].end = BatchesFrom(1)[i].end)

\* A copy of four batches through the queue of two has succeeded.
C25_Witness ==
    /\ ReaderStarted
    /\ exc = "ok"
    /\ Len(DestWrites) > QueueLenPlain + 1
    /\ Len(cfg.bmap.ranges) > 1

\* ------------------------------------------------------------------ C26
\* C26: within one copy run driven by a block map the byte offsets of the
\* writes to the destination are strictly increasing from one write to the
\* next.
C26_WriteOffsetsIncrease ==
    cfg.has_bmap =>
        \A i \in 1..(Len(DestWrites) - 1) :
            DestWrites[i].off < DestWrites[i + 1].off

\* ------------------------------------------------------------------ C27
\* The chunks partition first..last exactly and in increasing order, each of
\* B blocks except possibly the last, which has between 1 and B blocks.
IsPartition(chunks, first, last, B) ==
    /\ chunks # << >>
    /\ chunks[1].start = first
    /\ chunks[Len(chunks)].end = last
    /\ \A i \in 1..Len(chunks) :
          /\ chunks[i].length = chunks[i].end - chunks[i].start + 1
          /\ chunks[i].length >= 1
          /\ chunks[i].length <= B
          /\ i < Len(chunks) => /\ chunks[i].length = B
                                /\ chunks[i + 1].start = chunks[i].end + 1

\* The ranges and batch sizes C27 is checked for, at the start of every run.
BatchInputs == 0..(NBlocks + 1)
BatchBlocksInputs == 1..(NBlocks + 2)

\* C27: for every first <= last and batch size B >= 1, _get_batches(first,
\* last) yields chunks (start, end, length), length = end - start + 1, that
\* partition first..last exactly and in increasing order, every chunk of
\* length B except possibly the last, of length 1..B; the batches a copy has
\* still to read of its current range are the last chunks of that partition.
C27_BatchesPartitionRange ==
    /\ pc = "new" =>
          \A first \in BatchInputs, last \in BatchInputs, B \in BatchBlocksInputs :
             first <= last =>
                IsPartition(GetBatches(first, last, B), first, last, B)
    /\ (rd.first # NoneVal /\ rd.first <= rd.last /\ eng.batch_blocks >= 1) =>
          LET all == GetBatches(rd.first, rd.last, eng.batch_blocks) IN
          /\ IsPartition(all, rd.first, rd.last, eng.batch_blocks)
          /\ \E k \in 1..(Len(all) + 1) : rd.batches = SubSeq(all, k, Len(all))

\* A range of three blocks is being copied in a batch of two and one of one.
C27_Witness ==
    /\ rd.first # NoneVal
    /\ rd.last - rd.first + 1 > eng.batch_blocks
    /\ Len(rd.batches) = 2
    /\ rd.batches[2].length < rd.batches[1].length

\* ------------------------------------------------------------------ C28
\* C28: for every block size an accepted block map declares, the batch size
\* in blocks computed at construction (_batch_bytes divided by the block
\* size) is at least 1, so that _get_batches yields finitely many chunks.
C28_BatchBlocksPositive ==
    (Constructed /\ cfg.has_bmap) => eng.batch_blocks >= 1

\* ------------------------------------------------------------------ C29
\* C29: with a block map, the triple _get_block_ranges has yielded last is
\* the Range element at its place in the document, unchanged: (N, M) for the
\* text 'N-M', (N, N) for the text 'N', with the element's sha1 attribute or
\* none; the generator fails for no Range of the form 'N', the first of the
\* document included.
C29_RangesYieldedVerbatim ==
    /\ (cfg.has_bmap /\ rd.idx >= 1) =>
          LET elem == cfg.bmap.ranges[rd.idx] IN
          /\ rd.first = TextFirst(elem.nums)
          /\ rd.last = TextLast(elem.nums)
          /\ rd.sha1 = elem.sha1
    /\ exc # "UnboundLocalError"
    /\ rd.err # "unbound"

\* ------------------------------------------------------------------ C30
\* The places of the Ranges with first > last in the run's block map.
BadRanges ==
    { i \in 1..Len(MapTexts) : TextFirst(MapTexts[i]) > TextLast(MapTexts[i]) }

\* The blocks of the Ranges that come before the first bad one.
BeforeBadRange(b) ==
    \E i \in 1..Len(MapTexts) :
        /\ \A j \in BadRanges : i < j
        /\ TextFirst(MapTexts[i]) <= b
        /\ b <= TextLast(MapTexts[i])

\* The errors an earlier Range of the map can end the copy with.
EarlierRangeErrors ==
    {"Error:read", "Error:short", "Error:checksum", "Error:write",
     "Error:sync", "Error:flush"}

\* copy() has entered its loop over the ranges.
CopyLoops == pc \in {"loop", "batch", "write", "v1_range"}

\* C30: a copy driven by a block map that contains a Range with first > last
\* fails: it ends, with the invalid-range error unless an earlier Range's
\* read, checksum or write has failed first; and no block of the bad Range or
\* of a later Range is written.
C30_BadRangeFailsCopy ==
    /\ []((cfg.has_bmap /\ BadRanges # {}) =>
            /\ (result # "running" =>
                   result \in {"Error:badrange"} \cup EarlierRangeErrors)
            /\ \A i \in 1..Len(DestWrites) :
                  \A b \in (DestWrites[i].off \div BlockSize)
                           ..((DestWrites[i].off + DestWrites[i].len - 1)
                                 \div BlockSize) :
                     BeforeBadRange(b)
            /\ (DestWrites # << >> => Len(DestWrites) <= Len(BatchesFrom(1))))
    /\ []((cfg.has_bmap /\ BadRanges # {} /\ CopyLoops)
             => <>(result # "running"))

\* ------------------------------------------------------------------ C31
\* What copy() itself did to the destination, in order.
CopyLog == [i \in 1..Len(RunLog) |-> RunLog[i].o]

\* The places of an operation in CopyLog.
OpsAt(op) == { i \in 1..Len(CopyLog) : CopyLog[i].op = op }

\* C31: after the writer loop the finalization runs in this order, each step
\* at most once: the image size is set if it was unknown, blocks_written is
\* compared with mapped_cnt, a regular file is truncated to image_size, the
\* destination is flushed, then synchronized when the caller asked for it.
\* A failing step ends the sequence: after a failed blocks-written check
\* the destination is neither truncated, flushed nor synchronized.
C31_FinalizationInOrder ==
    /\ [](cfg.engine = "v26" =>
            /\ Cardinality(OpsAt("truncate")) <= 1
            /\ Cardinality(OpsAt("flush")) <= 1
            /\ \A t \in OpsAt("truncate") :
                  /\ DestIsRegfile
                  /\ \A w \in OpsAt("write") : w < t
                  /\ CopyLog[t].off = eng.image_size
                  /\ eng.image_size # NoneVal
                  /\ wr.blocks_written = eng.mapped_cnt
            /\ \A f \in OpsAt("flush") :
                  /\ \A w \in OpsAt("write") : w < f
                  /\ \A t \in OpsAt("truncate") : t < f
                  /\ DestIsRegfile => OpsAt("truncate") # {}
                  /\ wr.blocks_written = eng.mapped_cnt
                  /\ Len(CopyLog) <= f + 1
                  /\ Len(CopyLog) = f + 1 =>
                        CopyLog[f + 1].op = "sync" /\ cfg.sync
            /\ exc = "ok" =>
                  /\ OpsAt("flush") # {}
                  /\ (cfg.sync /\ DestSupportsFsync)
                        => CopyLog[Len(CopyLog)].op = "sync"
            /\ exc \notin {"none", "ok"} =>
                  pc \in {"restore", "restore_ratio", "done", "stopped"}
            /\ exc = "Error:inconsistent" =>
                  OpsAt("truncate") = {} /\ OpsAt("flush") = {})
    /\ [][(cfg.engine = "v26" /\ exc \notin {"none", "ok"})
             => CopyLog' = CopyLog /\ dest' = dest /\ exc' = exc]_vars

\* A copy without a bmap of an image of unknown size to a regular file has
\* ended with the truncation, the flush and the synchronization.
C31_Witness ==
    /\ cfg.engine = "v26"
    /\ ~cfg.has_bmap /\ cfg.image_size = NoneVal /\ ~cfg.bdev
    /\ exc = "ok"
    /\ OpsAt("write") # {}
    /\ Len(CopyLog) >= 3
    /\ CopyLog[Len(CopyLog) - 2].op = "truncate"
    /\ CopyLog[Len(CopyLog) - 2].off = Len(cfg.image)
    /\ CopyLog[Len(CopyLog) - 1].op = "flush"
    /\ CopyLog[Len(CopyLog)].op = "sync"

\* ------------------------------------------------------------------ C32
\* This step is the copy loop's handling of one batch, up to its periodic
\* synchronization at least: the writer of BmapCopy2_6.py has taken a Data
\* message, _copy_data of BmapCopy.py has read a chunk.
HandlesBatch ==
    \/ /\ cfg.engine = "v26" /\ pc = "batch"
       /\ pc' # pc \/ wr' # wr \/ log' # log
       /\ wr.batch.type = "range"
       /\ exc' # "AssertionError"
    \/ /\ cfg.engine = "v1" /\ pc = "v1_batch"
       /\ wr' # wr \/ pc' # pc \/ log' # log
       /\ exc' \notin {"Error:read", "Error:short"}

\* This step sets a new sync point.
SyncTriggered == wr'.fsync_last # wr.fsync_last

\* C32: at a batch the writer triggers a periodic sync exactly when
\* blocks_written exceeds the last sync point by more than the watermark, and
\* it records blocks_written as the new sync point; with a watermark of 0 or
\* unset no periodic sync is triggered.
C32_PeriodicSyncPastWatermark ==
    [][HandlesBatch =>
          /\ SyncTriggered <=>
                (/\ Truthy(eng.watermark)
                 /\ wr.blocks_written > wr.fsync_last + eng.watermark)
          /\ SyncTriggered =>
                /\ wr'.fsync_last = wr.blocks_written
                /\ \/ exc' \in {"Error:sync", "Error:flush"}
                   \/ \E i \in (Len(log) + 1)..Len(log') : log'[i].op = "sync"
          /\ ~SyncTriggered =>
                \A i \in (Len(log) + 1)..Len(log') : log'[i].op = "write"]_vars

\* ------------------------------------------------------------------ C33
\* The copy loop runs or has run with a periodic synchronization.
LoopWithWatermark ==
    /\ Truthy(eng.watermark)
    /\ wr.blocks_written # NoneVal
    /\ wr.fsync_last # NoneVal

\* C33: with a nonzero watermark W and batches of B blocks, the blocks
\* written since the last sync point are always fewer than W + B; the last
\* sync point never exceeds blocks_written and never decreases.
C33_SyncPointBounds ==
    /\ [](LoopWithWatermark =>
            /\ wr.blocks_written - wr.fsync_last
                  < eng.watermark + eng.batch_blocks
            /\ wr.fsync_last <= wr.blocks_written
            /\ wr.fsync_last >= 0)
    /\ [][LoopWithWatermark => wr'.fsync_last >= wr.fsync_last]_vars

\* After a periodic synchronization a whole batch more was written.
C33_Witness ==
    /\ LoopWithWatermark
    /\ wr.fsync_last > 0
    /\ wr.blocks_written = wr.fsync_last + eng.batch_blocks

\* ------------------------------------------------------------------ C34
\* The document's version is at or above 1.3, where the checksum appeared.
AtChecksumBaseline(b) == b.major > 1 \/ (b.major = 1 /\ b.minor >= 3)

\* The run's block map is such a document, handed to BmapCopy2_6.py, whose
\* BmapFileSHA1 element is not the checksum of its content.
WrongBmapChecksum ==
    /\ cfg.engine = "v26" /\ cfg.has_bmap
    /\ AtChecksumBaseline(cfg.bmap)
    /\ "file_sha1" \in DOMAIN cfg.bmap
    /\ cfg.bmap.file_sha1 # CalculatedSha1(cfg.bmap)

\* C34: every document of version 1.3 or above with a wrong checksum is
\* rejected by the constructor with the checksum-mismatch error, whatever
\* else is wrong with it (the checksum is verified before any other field
\* is trusted).
C34_BmapChecksumFirst ==
    (WrongBmapChecksum /\ pc # "new") => result = "Error:bmapchecksum"

\* ------------------------------------------------------------------ C35
\* _tune_block_device of BmapCopy2_6.py has run and _restore_bdev_settings
\* has not begun.
TunedNotRestored ==
    /\ cfg.engine = "v26" /\ cfg.bdev /\ sys.tuned
    /\ ~sys.restored /\ pc # "restore_ratio"

\* C35: for each tunable a prior value is recorded exactly when the write of
\* the new value succeeded: the old scheduler when "noop" was written, the
\* old max_ratio when "1" was written (the restore step writes back the
\* recorded values only).
C35_RecordedIffTuned ==
    TunedNotRestored =>
        /\ eng.old_sched # "" <=> (sys.sched = "noop" /\ sys.sched0 # "noop")
        /\ eng.old_ratio # NoneVal <=> (sys.ratio = 1 /\ sys.ratio0 # 1)

\* ------------------------------------------------------------------ C36
\* C36: the restore step attempts the write-back of every tunable that has a
\* recorded prior value: a failure to restore the I/O scheduler does not
\* prevent the attempt to restore max_ratio.
C36_EveryRecordedValueWrittenBack ==
    sys.restored =>
        /\ eng.old_sched # "" => "scheduler" \in sys.attempted
        /\ eng.old_ratio # NoneVal => "max_ratio" \in sys.attempted

\* ------------------------------------------------------------------ C37
\* C37: when the writer loop of BmapCopy2_6.py ends early because a write of
\* the destination or a periodic synchronization fails, the reader thread
\* eventually ends: it does not wait for ever in a put on the full queue.
C37_ReaderEndsAfterWriterFailure ==
    [](( /\ cfg.engine = "v26"
         /\ exc \in {"Error:write", "Error:sync"}
         /\ wr.blocks_written # NoneVal
         /\ pc \in {"restore", "restore_ratio", "done", "stopped"} )
          => <>(rd.pc \in {"done", "crashed"}))

\* ------------------------------------------------------------------ C38
\* The buffer of a Data message fills its blocks start..end, the last one
\* possibly in part.
BufferFitsBlocks(m) ==
    /\ (m.end - m.start) * eng.block_size < Len(m.buf)
    /\ Len(m.buf) <= (m.end - m.start + 1) * eng.block_size

\* C38: every Data message the reader holds for its put or has put on the
\* queue satisfies (end - start) * block_size < len(buf) <= (end - start +
\* 1) * block_size, the short final batch of a stream included, so the two
\* assertions of the writer on the buffer never fail (the one assertion
\* left, of _update_progress, needs a progress file).
C38_DataMessageFitsBlocks ==
    ReaderStarted =>
        /\ (rd.pc = "put" /\ rd.msg.type = "range") => BufferFitsBlocks(rd.msg)
        /\ \A i \in 1..Len(queue) :
              queue[i].type = "range" => BufferFitsBlocks(queue[i])
        /\ wr.batch.type = "range" => BufferFitsBlocks(wr.batch)
        /\ \A i \in 1..Len(rd.puts) :
              rd.puts[i].type = "range" =>
                 /\ (rd.puts[i].end - rd.puts[i].start) * eng.block_size
                       < rd.puts[i].len
                 /\ rd.puts[i].len
                       <= (rd.puts[i].end - rd.puts[i].start + 1) * eng.block_size
        /\ exc = "AssertionError" => cfg.progress

\* The queue holds the short final batch of an image that ends inside a block.
C38_Witness ==
    /\ ReaderStarted
    /\ \E i \in 1..Len(queue) :
          /\ queue[i].type = "range"
          /\ Len(queue[i].buf) % eng.block_size # 0
          /\ Len(queue[i].buf) < eng.batch_blocks * eng.block_size

====
